---- MODULE Spec2Model ----
(***************************************************************************)
(* hyperV service manager: the task registry (TaskManager), the process    *)
(* supervisor (ProcessManager) and the operating-system process table they *)
(* act on.  Strings (task names, task ids, identifiers) are sequences of   *)
(* characters so that equality and starts_with are computed, not assumed.  *)
(***************************************************************************)
EXTENDS Integers, Sequences, FiniteSets, TLC

VARIABLES tasks, file, procs, running_processes, fs, issued, last, env, logs

vars == <<tasks, file, procs, running_processes, fs, issued, last, env, logs>>

(***************************************************************************)
(* Bounds and input domains                                                *)
(***************************************************************************)
MaxTasks == 2
MaxPid == 2
MaxRestarts == 2

Pids == 1..MaxPid
NoPid == 0
NoCode == -1

IDS == {<<"a", "a">>, <<"a", "b">>, <<"b", "a">>}
Identifiers == {<<"a">>, <<"a", "b">>, <<"b", "a">>}

MAX_RESTART_ATTEMPTS == 5

(***************************************************************************)
(* The file system the binaries live on: existence, execute permission,    *)
(* and whether the file starts with a shebang naming a missing interpreter *)
(***************************************************************************)
BinaryFiles ==
    [ ok        |-> [exists |-> TRUE,  exec |-> TRUE,  shebang |-> FALSE, interp |-> TRUE,  text |-> FALSE],
      missing   |-> [exists |-> FALSE, exec |-> FALSE, shebang |-> FALSE, interp |-> TRUE,  text |-> FALSE],
      noexec    |-> [exists |-> TRUE,  exec |-> FALSE, shebang |-> TRUE,  interp |-> FALSE, text |-> TRUE],
      badinterp |-> [exists |-> TRUE,  exec |-> TRUE,  shebang |-> TRUE,  interp |-> FALSE, text |-> TRUE],
      script    |-> [exists |-> TRUE,  exec |-> TRUE,  shebang |-> TRUE,  interp |-> TRUE,  text |-> TRUE],
      plain     |-> [exists |-> TRUE,  exec |-> TRUE,  shebang |-> FALSE, interp |-> TRUE,  text |-> TRUE] ]

Binaries == DOMAIN BinaryFiles

\* what the user asks create_task for
Template(name, binary, auto_restart) ==
    [name |-> name, binary |-> binary, auto_restart |-> auto_restart]

Templates ==
    { Template(<<"a">>, "ok", TRUE),
      Template(<<"a", "b">>, "ok", FALSE),
      Template(<<"a", "b">>, "noexec", FALSE) }

(***************************************************************************)
(* Strings                                                                 *)
(***************************************************************************)
StartsWith(s, p) == Len(p) <= Len(s) /\ SubSeq(s, 1, Len(p)) = p

MinOf(S) == CHOOSE x \in S : \A y \in S : x <= y

(***************************************************************************)
(* Task records (task.rs)                                                  *)
(***************************************************************************)
TaskNew(id, name, binary, auto_restart, now) ==
    [ id |-> id, name |-> name, binary |-> binary, auto_restart |-> auto_restart,
      status |-> "Stopped", created_at |-> now, pid |-> NoPid,
      last_started |-> "None", restart_count |-> 0, last_exit_code |-> NoCode ]

set_status(t, s) == [t EXCEPT !.status = s]
set_pid(t, p) == [t EXCEPT !.pid = p]
clear_pid(t) == [t EXCEPT !.pid = NoPid]
set_last_started(t) == [t EXCEPT !.last_started = "Some"]
increment_restart_count(t) == [t EXCEPT !.restart_count = @ + 1]
set_exit_code(t, c) == [t EXCEPT !.last_exit_code = c]

(***************************************************************************)
(* Lookup (manager.rs find_task / find_task_mut / remove_task position)    *)
(***************************************************************************)
Matches(t, identifier) ==
    \/ t.name = identifier
    \/ t.id = identifier
    \/ StartsWith(t.id, identifier)

MaxOf(S) == CHOOSE x \in S : \A y \in S : x >= y

\* faulty variant: the last match instead of the first
find_task_last(ts, identifier) ==
    LET S == {i \in 1..Len(ts) : Matches(ts[i], identifier)}
    IN  IF S = {} THEN 0 ELSE MaxOf(S)

\* index of the task found, 0 for None
find_task(ts, identifier) ==
    LET S == {i \in 1..Len(ts) : Matches(ts[i], identifier)}
    IN  IF S = {} THEN 0 ELSE MinOf(S)

(***************************************************************************)
(* Persistence (manager.rs save): a full rewrite, or an I/O error          *)
(***************************************************************************)
\* faulty variant: records of the file that this instance does not hold are kept
save_merge(M, disk) ==
    IF disk
    THEN [M EXCEPT !.file = M.tasks \o SelectSeq(M.file,
                                LAMBDA t : \A i \in 1..Len(M.tasks) : M.tasks[i].id # t.id)]
    ELSE M

\* faulty variant: the records are appended to the file instead of replacing it
save_append(M, disk) == IF disk THEN [M EXCEPT !.file = M.file \o M.tasks] ELSE M

save(M, disk) == IF disk THEN [M EXCEPT !.file = M.tasks] ELSE M

Machine ==
    [tasks |-> tasks, file |-> file, procs |-> procs, running |-> running_processes, fs |-> fs]

(***************************************************************************)
(* create_task                                                             *)
(***************************************************************************)
\* faulty variant: the name check of create_task dropped
NameTakenNever(ts, name) == FALSE

NameTaken(ts, name) == \E i \in 1..Len(ts) : ts[i].name = name

\* faulty variant: the uniqueness check compares ids instead of names
create_task_idcheck(M, name, binary, auto_restart, id, now, disk) ==
    IF \E i \in 1..Len(M.tasks) : M.tasks[i].id = id
    THEN [m |-> M, res |-> "TaskExists"]
    ELSE LET t  == TaskNew(id, name, binary, auto_restart, now)
             m1 == [M EXCEPT !.tasks = Append(@, t)]
         IN  [m |-> save(m1, disk), res |-> "Ok"]

\* faulty variant: the new task is inserted in front
create_task_prepend(M, name, binary, auto_restart, id, now, disk) ==
    IF \E i \in 1..Len(M.tasks) : M.tasks[i].name = name
    THEN [m |-> M, res |-> "TaskExists"]
    ELSE LET t  == TaskNew(id, name, binary, auto_restart, now)
             m1 == [M EXCEPT !.tasks = <<t>> \o @]
         IN  [m |-> save(m1, disk), res |-> "Ok"]

create_task(M, name, binary, auto_restart, id, now, disk) ==
    IF NameTaken(M.tasks, name)
    THEN [m |-> M, res |-> "TaskExists"]
    ELSE LET t  == TaskNew(id, name, binary, auto_restart, now)
             m1 == [M EXCEPT !.tasks = Append(@, t)]
         IN  IF disk THEN [m |-> save(m1, disk), res |-> "Ok"]
                     ELSE [m |-> m1, res |-> "Io"]

(***************************************************************************)
(* The process table seen through the supervisor's system calls            *)
(* (process.rs).  A process is "child" (alive, spawned by this instance),  *)
(* "orphan" (alive, spawned by an earlier instance), "zombie" (terminated  *)
(* child not yet waited for) or "none".                                    *)
(***************************************************************************)
NoProc == [st |-> "none", code |-> NoCode]
ChildProc == [st |-> "child", code |-> NoCode]
OrphanProc == [st |-> "orphan", code |-> NoCode]
ZombieProc(c) == [st |-> "zombie", code |-> c]

\* kill(pid, 0) == 0: any process-table entry with that pid, zombies included
is_process_running(P, pid) == pid \in Pids /\ P[pid].st # "none"

\* the process with this pid terminates with status c
Die(P, pid, c) ==
    IF P[pid].st = "child" THEN [P EXCEPT ![pid] = ZombieProc(c)]
    ELSE IF P[pid].st = "orphan" THEN [P EXCEPT ![pid] = NoProc]
    ELSE P

validate_script(F, path) ==
    LET f == F[path]
    IN  IF f.shebang /\ ~f.interp THEN "InterpreterNotFound" ELSE "Ok"

validate_binary(F, path) ==
    LET f == F[path]
    IN  IF ~f.exists THEN "BinaryNotFound"
        ELSE IF ~f.exec THEN "BinaryNotExecutable"
        ELSE validate_script(F, path)

\* ProcessManager::start_task; spawn = NoPid: cmd.spawn() fails,
\* otherwise the pid the operating system gives the new child
pm_start_task(M, task, spawn) ==
    LET v == validate_binary(M.fs, task.binary)
    IN  IF v # "Ok" THEN [m |-> M, res |-> v, pid |-> NoPid]
        ELSE IF spawn = NoPid THEN [m |-> M, res |-> "ProcessStart", pid |-> NoPid]
        ELSE [m |-> [M EXCEPT !.procs[spawn] = ChildProc,
                              !.running[task.id] = spawn],
              res |-> "Ok", pid |-> spawn]

\* the operating system never hands out a pid that is in the process table;
\* a pid is not handed out again while a handle of the supervisor refers to it
SpawnFeasible(M, spawn) ==
    IF spawn = NoPid THEN TRUE
    ELSE M.procs[spawn].st = "none" /\ \A id \in IDS : M.running[id] # spawn

(***************************************************************************)
(* ProcessManager::stop_task.  The oracle o fixes what the environment     *)
(* does during the call: whether each kill() is delivered (tg, tp, kg,     *)
(* kp), whether the process reacts to SIGTERM by terminating (react) and   *)
(* whether it terminated on its own before a re-probe (gone).              *)
(***************************************************************************)
AllStopOracles ==
    [tg : BOOLEAN, tp : BOOLEAN, react : {"die", "ignore"},
     kg : BOOLEAN, kp : BOOLEAN, gone : BOOLEAN]

\* one oracle per distinguishable course of the call
StopOracles ==
    {o \in AllStopOracles : /\ (o.tg => o.tp)
                            /\ (o.kg => o.kp)
                            /\ (o.gone => (~o.tp \/ ~o.kp))}

QuietOracle == [tg |-> TRUE, tp |-> TRUE, react |-> "die", kg |-> TRUE, kp |-> TRUE, gone |-> FALSE]
DeafOracle == [tg |-> FALSE, tp |-> FALSE, react |-> "ignore", kg |-> FALSE, kp |-> FALSE, gone |-> FALSE]

\* signalling a zombie always succeeds
OracleFeasible(P, pid, o) ==
    IF pid \in Pids THEN (P[pid].st = "zombie" => (o.tg /\ o.kg)) ELSE TRUE

\* the oracle is consulted only when the supervisor's stop runs on a live pid
OracleUsable(M, identifier, o) ==
    LET i == find_task(M.tasks, identifier)
    IN  IF i # 0 /\ M.tasks[i].status = "Running" /\ is_process_running(M.procs, M.tasks[i].pid)
        THEN OracleFeasible(M.procs, M.tasks[i].pid, o)
        ELSE o = QuietOracle

\* faulty variant: the handle is left in the live mapping
DropHandleNot(M, task_id) == M

\* running_processes.remove(task_id)
DropHandle(M, task_id) == [M EXCEPT !.running[task_id] = NoPid]

pm_stop_kill(M, task_id, pid, o, sigs) ==
    LET s1 == Append(sigs, "SIGKILL_group")
        s2 == Append(s1, "SIGKILL_pid")
        dead == [M EXCEPT !.procs = Die(@, pid, NoCode)]
        gone == IF o.gone THEN dead ELSE M
    IN  IF o.kg THEN [m |-> DropHandle(dead, task_id), res |-> "Ok", sigs |-> s1]
        ELSE IF o.kp THEN [m |-> DropHandle(dead, task_id), res |-> "Ok", sigs |-> s2]
        ELSE IF ~is_process_running(gone.procs, pid)
             THEN [m |-> DropHandle(gone, task_id), res |-> "Ok", sigs |-> s2]
             ELSE [m |-> gone, res |-> "ProcessStop", sigs |-> s2]

\* thread::sleep(SHUTDOWN_TIMEOUT): the machine when the grace period has elapsed
AfterGrace(M, pid, o) ==
    IF o.react = "die" THEN [M EXCEPT !.procs = Die(@, pid, NoCode)] ELSE M

\* faulty variant: SIGKILL follows the grace period without a second probe
pm_stop_wait_eager(M, task_id, pid, o, sigs) ==
    pm_stop_kill(AfterGrace(M, pid, o), task_id, pid, o, Append(sigs, "sleep"))

pm_stop_wait(M, task_id, pid, o, sigs) ==
    LET m1 == AfterGrace(M, pid, o)
        s1 == Append(sigs, "sleep")
    IN  IF is_process_running(m1.procs, pid)
        THEN pm_stop_kill(m1, task_id, pid, o, s1)
        ELSE [m |-> DropHandle(m1, task_id), res |-> "Ok", sigs |-> s1]

\* faulty variant: no fallback to the pid when the group cannot be signalled
pm_stop_task_nofallback(M, task_id, pid, o) ==
    LET s1 == <<"SIGTERM_group">>
    IN  IF ~is_process_running(M.procs, pid)
        THEN [m |-> DropHandle(M, task_id), res |-> "Ok", sigs |-> << >>]
        ELSE IF o.tg THEN pm_stop_wait(M, task_id, pid, o, s1)
        ELSE [m |-> M, res |-> "ProcessStop", sigs |-> s1]

pm_stop_task(M, task_id, pid, o) ==
    LET s1 == <<"SIGTERM_group">>
        s2 == <<"SIGTERM_group", "SIGTERM_pid">>
        gone == IF o.gone THEN [M EXCEPT !.procs = Die(@, pid, NoCode)] ELSE M
    IN  IF ~is_process_running(M.procs, pid)
        THEN [m |-> DropHandle(M, task_id), res |-> "Ok", sigs |-> << >>]
        ELSE IF o.tg THEN pm_stop_wait(M, task_id, pid, o, s1)
        ELSE IF o.tp THEN pm_stop_wait(M, task_id, pid, o, s2)
        ELSE IF ~is_process_running(gone.procs, pid)
             THEN [m |-> DropHandle(gone, task_id), res |-> "Ok", sigs |-> s2]
             ELSE [m |-> gone, res |-> "ProcessStop", sigs |-> s2]

\* ProcessManager::cleanup_zombies: try_wait on every tracked handle
Reaped(M) == {id \in IDS : M.running[id] # NoPid /\ M.procs[M.running[id]].st = "zombie"}

\* try_wait returns Err: the child is no longer in the process table
WaitFailed(M) == {id \in IDS : M.running[id] # NoPid /\ M.procs[M.running[id]].st = "none"}

\* faulty variant: every handle is waited for and removed, running or not
cleanup_zombies_blocking(M) ==
    [m |-> [M EXCEPT !.procs = [p \in Pids |->
                                  IF \E id \in IDS : M.running[id] = p THEN NoProc ELSE @[p]],
                     !.running = [id \in IDS |-> NoPid]],
     exit_codes |-> [id \in IDS |-> IF id \in Reaped(M) THEN M.procs[M.running[id]].code
                                                        ELSE NoCode]]

cleanup_zombies(M) ==
    LET R == Reaped(M)
        to_remove == R \cup WaitFailed(M)
    IN  [m |-> [M EXCEPT !.procs = [p \in Pids |->
                                      IF \E id \in R : M.running[id] = p THEN NoProc ELSE @[p]],
                         !.running = [id \in IDS |-> IF id \in to_remove THEN NoPid ELSE @[id]]],
         exit_codes |-> [id \in IDS |-> IF id \in R THEN M.procs[M.running[id]].code ELSE NoCode]]


(***************************************************************************)
(* TaskManager operations (manager.rs).  Each returns the machine after    *)
(* the call, the result ("Ok" or the error's name), the signals sent and   *)
(* the processes spawned, as <<task id, pid>>.  disk = FALSE: the write of *)
(* the registry file fails during this call.                               *)
(***************************************************************************)
Update(M, i, t) == [M EXCEPT !.tasks[i] = t]

Ret(m, res, sigs, spawned) == [m |-> m, res |-> res, sigs |-> sigs, spawned |-> spawned]

\* faulty variant: a successful start resets the restart counter
start_launch_resetcount(M, identifier, task, spawn, disk) ==
    LET r == pm_start_task(M, task, spawn)
        j == find_task(r.m.tasks, identifier)
    IN  IF r.res = "Ok"
        THEN LET m1 == Update(r.m, j, [set_last_started(set_pid(set_status(r.m.tasks[j], "Running"), r.pid))
                                         EXCEPT !.restart_count = 0])
             IN  Ret(save(m1, disk), IF disk THEN "Ok" ELSE "Io", << >>, << <<task.id, r.pid>> >>)
        ELSE LET m1 == Update(r.m, j, set_status(r.m.tasks[j], "Failed"))
             IN  Ret(save(m1, disk), IF disk THEN r.res ELSE "Io", << >>, << >>)

\* faulty variant: a successful start forgets the exit code of the previous run
start_launch_resetcode(M, identifier, task, spawn, disk) ==
    LET r == pm_start_task(M, task, spawn)
        j == find_task(r.m.tasks, identifier)
    IN  IF r.res = "Ok"
        THEN LET m1 == Update(r.m, j, set_exit_code(set_last_started(
                                         set_pid(set_status(r.m.tasks[j], "Running"), r.pid)),
                                         NoCode))
             IN  Ret(save(m1, disk), IF disk THEN "Ok" ELSE "Io", << >>, << <<task.id, r.pid>> >>)
        ELSE LET m1 == Update(r.m, j, set_status(r.m.tasks[j], "Failed"))
             IN  Ret(save(m1, disk), IF disk THEN r.res ELSE "Io", << >>, << >>)

\* faulty variant: the pid of the new process is not recorded on the task
start_launch_nopid(M, identifier, task, spawn, disk) ==
    LET r == pm_start_task(M, task, spawn)
        j == find_task(r.m.tasks, identifier)
    IN  IF r.res = "Ok"
        THEN LET m1 == Update(r.m, j, set_last_started(set_status(r.m.tasks[j], "Running")))
             IN  Ret(save(m1, disk), IF disk THEN "Ok" ELSE "Io", << >>, << <<task.id, r.pid>> >>)
        ELSE LET m1 == Update(r.m, j, set_status(r.m.tasks[j], "Failed"))
             IN  Ret(save(m1, disk), IF disk THEN r.res ELSE "Io", << >>, << >>)

\* manager.rs 236-258: the launch and the bookkeeping that follows it
start_launch(M, identifier, task, spawn, disk) ==
    LET r == pm_start_task(M, task, spawn)
        j == find_task(r.m.tasks, identifier)
    IN  IF r.res = "Ok"
        THEN LET m1 == Update(r.m, j, set_last_started(set_pid(set_status(r.m.tasks[j], "Running"), r.pid)))
             IN  Ret(save(m1, disk), IF disk THEN "Ok" ELSE "Io", << >>, << <<task.id, r.pid>> >>)
        ELSE LET m1 == Update(r.m, j, set_status(r.m.tasks[j], "Failed"))
             IN  Ret(save(m1, disk), IF disk THEN r.res ELSE "Io", << >>, << >>)

\* faulty variant: the already-running check is skipped
start_task_nocheck(M, identifier, spawn, disk) ==
    LET i == find_task(M.tasks, identifier)
    IN  IF i = 0 THEN Ret(M, "TaskNotFound", << >>, << >>)
        ELSE start_launch(M, identifier, M.tasks[i], spawn, disk)

start_task(M, identifier, spawn, disk) ==
    LET i == find_task(M.tasks, identifier)
    IN  IF i = 0 THEN Ret(M, "TaskNotFound", << >>, << >>)
        ELSE LET task == M.tasks[i]
             IN  IF task.status = "Running" /\ task.pid # NoPid
                 THEN IF is_process_running(M.procs, task.pid)
                      THEN Ret(M, "TaskAlreadyRunning", << >>, << >>)
                      ELSE LET m1 == Update(M, i, clear_pid(set_status(M.tasks[i], "Failed")))
                           IN  IF disk THEN start_launch(save(m1, disk), identifier, task, spawn, disk)
                                       ELSE Ret(m1, "Io", << >>, << >>)
                 ELSE start_launch(M, identifier, task, spawn, disk)

\* faulty variant: stopping a task that is not running is an error, and the
\* supervisor's stop is called whatever the probe says
stop_task_strict(M, identifier, o, disk) ==
    LET i == find_task(M.tasks, identifier)
        stopped(m) == Update(m, i, clear_pid(set_status(m.tasks[i], "Stopped")))
    IN  IF i = 0 THEN Ret(M, "TaskNotFound", << >>, << >>)
        ELSE LET task == M.tasks[i]
             IN  IF task.status # "Running" THEN Ret(M, "TaskNotRunning", << >>, << >>)
                 ELSE IF task.pid = NoPid
                      THEN Ret(save(stopped(M), disk), IF disk THEN "Ok" ELSE "Io", << >>, << >>)
                 ELSE LET r == pm_stop_task(M, task.id, task.pid, o)
                      IN  IF r.res # "Ok" THEN Ret(r.m, r.res, r.sigs, << >>)
                          ELSE Ret(save(stopped(r.m), disk), IF disk THEN "Ok" ELSE "Io", r.sigs, << >>)

stop_task(M, identifier, o, disk) ==
    LET i == find_task(M.tasks, identifier)
        stopped(m) == Update(m, i, clear_pid(set_status(m.tasks[i], "Stopped")))
    IN  IF i = 0 THEN Ret(M, "TaskNotFound", << >>, << >>)
        ELSE LET task == M.tasks[i]
             IN  IF task.status # "Running" THEN Ret(M, "Ok", << >>, << >>)
                 ELSE IF task.pid = NoPid
                      THEN Ret(save(stopped(M), disk), IF disk THEN "Ok" ELSE "Io", << >>, << >>)
                 ELSE IF ~is_process_running(M.procs, task.pid)
                      THEN Ret(save(stopped(M), disk), IF disk THEN "Ok" ELSE "Io", << >>, << >>)
                 ELSE LET r == pm_stop_task(M, task.id, task.pid, o)
                      IN  IF r.res # "Ok" THEN Ret(r.m, r.res, r.sigs, << >>)
                          ELSE Ret(save(stopped(r.m), disk), IF disk THEN "Ok" ELSE "Io", r.sigs, << >>)

RemoveAt(ts, i) == SubSeq(ts, 1, i - 1) \o SubSeq(ts, i + 1, Len(ts))

\* faulty variant: the record is deleted whatever the stop returned
remove_task_force(M, identifier, o, disk) ==
    LET task_index == find_task(M.tasks, identifier)
    IN  IF task_index = 0 THEN Ret(M, "TaskNotFound", << >>, << >>)
        ELSE LET r == IF M.tasks[task_index].status = "Running"
                      THEN stop_task(M, identifier, o, disk)
                      ELSE Ret(M, "Ok", << >>, << >>)
                 m1 == [r.m EXCEPT !.tasks = RemoveAt(@, task_index)]
             IN  Ret(save(m1, disk), IF disk THEN r.res ELSE "Io", r.sigs, << >>)

remove_task(M, identifier, o, disk) ==
    LET task_index == find_task(M.tasks, identifier)
    IN  IF task_index = 0 THEN Ret(M, "TaskNotFound", << >>, << >>)
        ELSE LET r == IF M.tasks[task_index].status = "Running"
                      THEN stop_task(M, identifier, o, disk)
                      ELSE Ret(M, "Ok", << >>, << >>)
             IN  IF r.res # "Ok" THEN r
                 ELSE LET m1 == [r.m EXCEPT !.tasks = RemoveAt(@, task_index)]
                      IN  Ret(save(m1, disk), IF disk THEN "Ok" ELSE "Io", r.sigs, << >>)

\* faulty variant: the read path marks dead tasks Failed, as the reap path does
refresh_task_statuses_failed(M, disk) ==
    LET dead(t) == t.status = "Running" /\ t.pid # NoPid /\ ~is_process_running(M.procs, t.pid)
        ts == [i \in 1..Len(M.tasks) |->
                 IF dead(M.tasks[i]) THEN clear_pid(set_status(M.tasks[i], "Failed"))
                                     ELSE M.tasks[i]]
        m1 == [M EXCEPT !.tasks = ts]
    IN  Ret(save(m1, disk), IF disk THEN "Ok" ELSE "Io", << >>, << >>)

refresh_task_statuses(M, disk) ==
    LET dead(t) == t.status = "Running" /\ t.pid # NoPid /\ ~is_process_running(M.procs, t.pid)
        ts == [i \in 1..Len(M.tasks) |->
                 IF dead(M.tasks[i]) THEN clear_pid(set_status(M.tasks[i], "Stopped"))
                                     ELSE M.tasks[i]]
        updated == \E i \in 1..Len(M.tasks) : dead(M.tasks[i])
        m1 == [M EXCEPT !.tasks = ts]
    IN  IF updated THEN Ret(save(m1, disk), IF disk THEN "Ok" ELSE "Io", << >>, << >>)
                   ELSE Ret(M, "Ok", << >>, << >>)

cleanup(M, disk) ==
    LET z == cleanup_zombies(M)
        dead(t) == t.status = "Running" /\ t.pid # NoPid /\ ~is_process_running(z.m.procs, t.pid)
        coded(t) == IF z.exit_codes[t.id] # NoCode THEN set_exit_code(t, z.exit_codes[t.id]) ELSE t
        ts == [i \in 1..Len(M.tasks) |->
                 IF dead(M.tasks[i]) THEN clear_pid(set_status(coded(M.tasks[i]), "Failed"))
                                     ELSE M.tasks[i]]
        changed == \E i \in 1..Len(M.tasks) : dead(M.tasks[i])
        m1 == [z.m EXCEPT !.tasks = ts]
    IN  IF changed THEN Ret(save(m1, disk), IF disk THEN "Ok" ELSE "Io", << >>, << >>)
                   ELSE Ret(z.m, "Ok", << >>, << >>)


\* manager.rs 390-398: the ids of the tasks selected for a restart, in registry order
RECURSIVE tasks_to_restart(_)
tasks_to_restart(ts) ==
    IF ts = << >> THEN << >>
    ELSE LET t == Head(ts)
             sel == t.auto_restart /\ t.status = "Failed" /\ t.restart_count <= MAX_RESTART_ATTEMPTS
         IN  (IF sel THEN <<t.id>> ELSE << >>) \o tasks_to_restart(Tail(ts))

IndexOfId(ts, id) ==
    LET S == {i \in 1..Len(ts) : ts[i].id = id}
    IN  IF S = {} THEN 0 ELSE MinOf(S)

\* manager.rs 412-418: what follows a failed start_task(&task_name)
mark_failed_again(M, task_name) ==
    LET j == find_task(M.tasks, task_name)
    IN  IF j = 0 THEN M ELSE Update(M, j, set_status(M.tasks[j], "Failed"))

\* the registry file stops being writable during a pass: fail_at = 0 never,
\* otherwise from the fail_at-th write on, where the k-th selected task has
\* three writes: 3k-2 the save at manager.rs 407, 3k-1 the saves inside
\* start_task, 3k the save at manager.rs 417
Writable(fail_at, k, phase) == fail_at = 0 \/ 3 * (k - 1) + phase < fail_at

\* restart_count of the task with this id in the registry file, NoCode if absent
PersistedCount(M, id) ==
    LET j == IndexOfId(M.file, id)
    IN  IF j = 0 THEN NoCode ELSE M.file[j].restart_count

\* manager.rs 400-423: the loop over the selected ids.  acc carries the
\* machine, the spawns and the attempts made so far, and whether every pid
\* the oracle named was free when it was handed out.  An attempt records the
\* result of start_task(&task_name), or "Aborted" when save()? at 407
\* returned before start_task was called.
RECURSIVE restart_loop(_, _, _, _, _)
restart_loop(acc, ids, k, spawns, fail_at) ==
    IF k > Len(ids) THEN acc
    ELSE LET M == acc.m
             i == IndexOfId(M.tasks, ids[k])
         IN  IF i = 0 THEN restart_loop(acc, ids, k + 1, spawns, fail_at)
             ELSE LET m1 == Update(M, i, increment_restart_count(M.tasks[i]))
                      task_name == M.tasks[i].name
                      number == M.tasks[i].restart_count + 1
                  IN  IF ~Writable(fail_at, k, 1)
                      THEN [acc EXCEPT !.m = m1, !.res = "Io",
                                       !.attempts = Append(@, [id |-> ids[k], name |-> task_name,
                                                               res |-> "Aborted", number |-> number,
                                                               persisted |-> PersistedCount(m1, ids[k])])]
                      ELSE LET m1s == save(m1, TRUE)
                               r == start_task(m1s, task_name, spawns[k], Writable(fail_at, k, 2))
                               a == [id |-> ids[k], name |-> task_name, res |-> r.res,
                                     number |-> number,
                                     persisted |-> PersistedCount(m1s, ids[k])]
                               next == [m |-> r.m, res |-> "Ok", sigs |-> << >>,
                                        spawned |-> acc.spawned \o r.spawned,
                                        attempts |-> Append(acc.attempts, a),
                                        feasible |-> acc.feasible /\ SpawnFeasible(m1, spawns[k])]
                           IN  IF r.res = "Ok"
                               THEN restart_loop(next, ids, k + 1, spawns, fail_at)
                               ELSE LET m2 == mark_failed_again(r.m, task_name)
                                    IN  IF Writable(fail_at, k, 3)
                                        THEN restart_loop([next EXCEPT !.m = save(m2, TRUE)],
                                                          ids, k + 1, spawns, fail_at)
                                        ELSE [next EXCEPT !.m = m2, !.res = "Io"]

check_and_restart_tasks(M, spawns, fail_at) ==
    restart_loop([m |-> M, res |-> "Ok", sigs |-> << >>, spawned |-> << >>,
                  attempts |-> << >>, feasible |-> TRUE],
                 tasks_to_restart(M.tasks), 1, spawns, fail_at)

(***************************************************************************)
(* The environment of a launched process (manager.rs create_task 74-99,    *)
(* start_task 218-237).  A line is a sequence of characters, a map from    *)
(* variable names to values is a function                                  *)
(***************************************************************************)
EmptyMap == [k \in {} |-> << >>]

insert(m, k, v) == [x \in DOMAIN m \cup {k} |-> IF x = k THEN v ELSE m[x]]

\* str::split_once('='): the text before and after the first '=', if any
split_once(line) ==
    LET E == {i \in 1..Len(line) : line[i] = "="}
    IN  IF E = {} THEN [some |-> FALSE, key |-> << >>, value |-> << >>]
        ELSE [some |-> TRUE, key |-> SubSeq(line, 1, MinOf(E) - 1),
              value |-> SubSeq(line, MinOf(E) + 1, Len(line))]

\* manager.rs 74-82: the variables given on the command line
RECURSIVE parse_env_vars(_, _)
parse_env_vars(m, env_vars) ==
    IF env_vars = << >> THEN [res |-> "Ok", env |-> m]
    ELSE LET kv == split_once(Head(env_vars))
         IN  IF kv.some THEN parse_env_vars(insert(m, kv.key, kv.value), Tail(env_vars))
             ELSE [res |-> "InvalidEnvVar", env |-> m]

\* manager.rs 89-96 and 224-231: the lines of the .env file, in order; a
\* name the map already has is left alone
RECURSIVE merge_lines(_, _)
merge_lines(m, lines) ==
    IF lines = << >> THEN m
    ELSE LET kv == split_once(Head(lines))
         IN  merge_lines(IF kv.some /\ kv.key \notin DOMAIN m
                         THEN insert(m, kv.key, kv.value) ELSE m,
                         Tail(lines))

\* manager.rs 84-98 and 220-233: only with a workdir whose .env file exists
load_env_file(m, workdir, dotenv) ==
    IF workdir /\ dotenv.exists THEN merge_lines(m, dotenv.lines) ELSE m

NoDotenv == [exists |-> FALSE, lines |-> << >>]

EnvInit ==
    [created |-> FALSE, launched |-> FALSE, workdir |-> FALSE, explicit |-> EmptyMap,
     task |-> EmptyMap, dotenv |-> NoDotenv, read |-> NoDotenv, passed |-> EmptyMap]

(***************************************************************************)
(* The log directory of a task (config.rs 42-55) and the LogManager        *)
(* (logs.rs).  A path is the sequence of the dot-separated parts of the    *)
(* file name; a file is a sequence of lines or does not exist; a line is   *)
(* known by its text, and "big" stands for a line of MAX_LOG_SIZE bytes.   *)
(***************************************************************************)
MAX_LOG_SIZE == 10 * 1024 * 1024

MaxLogLines == 2

stdout_log_path == <<"stdout", "log">>
stderr_log_path == <<"stderr", "log">>

\* Path::with_extension: the part after the last dot is replaced
with_extension(path, ext) == SubSeq(path, 1, Len(path) - 1) \o ext

LogPaths ==
    { stdout_log_path, stderr_log_path,
      with_extension(stdout_log_path, <<"log", "old">>),
      with_extension(stderr_log_path, <<"log", "old">>) }

NoFile == [exists |-> FALSE, lines |-> << >>]
EmptyFile == [exists |-> TRUE, lines |-> << >>]

LineBytes(l) == IF l = "big" THEN MAX_LOG_SIZE ELSE Len(l) + 1

\* fs::metadata(path).len()
RECURSIVE metadata_len(_)
metadata_len(lines) ==
    IF lines = << >> THEN 0 ELSE LineBytes(Head(lines)) + metadata_len(Tail(lines))

\* faulty variant: a log of exactly MAX_LOG_SIZE bytes is rotated too
rotate_log_if_needed_ge(D, log_path) ==
    IF ~D[log_path].exists THEN D
    ELSE IF metadata_len(D[log_path].lines) >= MAX_LOG_SIZE
         THEN LET backup_path == with_extension(log_path, <<"log", "old">>)
              IN  [D EXCEPT ![backup_path] = D[log_path], ![log_path] = NoFile]
         ELSE D

\* logs.rs 38-64; remove_file of the old backup followed by rename
rotate_log_if_needed(D, log_path) ==
    IF ~D[log_path].exists THEN D
    ELSE IF metadata_len(D[log_path].lines) > MAX_LOG_SIZE
         THEN LET backup_path == with_extension(log_path, <<"log", "old">>)
              IN  [D EXCEPT ![backup_path] = D[log_path], ![log_path] = NoFile]
         ELSE D

\* OpenOptions::new().create(true).append(true).open(path), process.rs 66-76
open_append(D, path) == IF D[path].exists THEN D ELSE [D EXCEPT ![path] = EmptyFile]

\* the log directories after start_task(identifier): nothing is touched when
\* the call returns before manager.rs 199; the logs are opened only when
\* validate_binary passed (process.rs 49)
start_task_logs(M, L, identifier, disk) ==
    LET i == find_task(M.tasks, identifier)
    IN  IF i = 0 THEN L
        ELSE LET task == M.tasks[i]
                 probed == task.status = "Running" /\ task.pid # NoPid
                 rotated == rotate_log_if_needed(rotate_log_if_needed(L[task.id], stdout_log_path),
                                                 stderr_log_path)
             IN  IF probed /\ (is_process_running(M.procs, task.pid) \/ ~disk) THEN L
                 ELSE IF validate_binary(M.fs, task.binary) # "Ok"
                      THEN [L EXCEPT ![task.id] = rotated]
                      ELSE [L EXCEPT ![task.id] = open_append(open_append(rotated, stdout_log_path),
                                                              stderr_log_path)]

NoLogs == [p \in LogPaths |-> NoFile]

\* faulty variant: the first lines of the file are returned
read_log_lines_head(f, lines, readable) ==
    IF ~f.exists THEN [res |-> "Ok", out |-> << "Log file not found or empty" >>]
    ELSE IF ~readable THEN [res |-> "Io", out |-> << >>]
    ELSE LET all_lines == f.lines
         IN  [res |-> "Ok",
              out |-> SubSeq(all_lines, 1, IF Len(all_lines) > lines THEN lines ELSE Len(all_lines))]

\* logs.rs 67-88; readable = FALSE: File::open or a read fails (no
\* permission, bytes that are not UTF-8)
read_log_lines(f, lines, readable) ==
    IF ~f.exists THEN [res |-> "Ok", out |-> << "Log file not found or empty" >>]
    ELSE IF ~readable THEN [res |-> "Io", out |-> << >>]
    ELSE LET all_lines == f.lines
             start_index == IF Len(all_lines) > lines THEN Len(all_lines) - lines ELSE 0
         IN  [res |-> "Ok", out |-> SubSeq(all_lines, start_index + 1, Len(all_lines))]

\* no read_log_lines call has been made
NoTail == [called |-> FALSE, f |-> NoFile, n |-> 0, readable |-> TRUE, res |-> "Ok", out |-> << >>]

\* faulty variant: the reader starts at the beginning of the file
seek_start(f) == 0

\* file.seek(SeekFrom::End(0)): the reader's position, in lines
seek_end(f) == Len(f.lines)

\* no follow is in progress.  open: the streams a reader was opened on; pos:
\* the position of each reader; present and existed: the length and the
\* existence of each file at invocation; failed: a read returned an error;
\* printed: what the follow has written to the terminal, as <<label, line>>
NoFollow ==
    [mode |-> "none", st |-> "idle", id |-> << >>,
     open |-> [p \in {stdout_log_path, stderr_log_path} |-> FALSE],
     pos |-> [p \in {stdout_log_path, stderr_log_path} |-> 0],
     present |-> [p \in {stdout_log_path, stderr_log_path} |-> 0],
     existed |-> [p \in {stdout_log_path, stderr_log_path} |-> FALSE],
     failed |-> FALSE, printed |-> << >>]

\* logs.rs 146-160: follow_single_log up to the loop
follow_single_log_open(F, D, id, p) ==
    IF ~D[p].exists
    THEN [F EXCEPT !.mode = "single", !.st = "returned", !.id = id]
    ELSE [F EXCEPT !.mode = "single", !.st = "following", !.id = id,
                   !.open[p] = TRUE, !.pos[p] = seek_end(D[p]),
                   !.present[p] = Len(D[p].lines), !.existed[p] = TRUE]

\* logs.rs 162-178: one turn of the loop of follow_single_log on the stream
\* it opened; err: read_line returns an error (bytes that are not UTF-8, an
\* I/O error); a read that finds nothing sleeps and changes nothing
follow_single_log_turn(F, D, p, err) ==
    IF err THEN [F EXCEPT !.st = "returned", !.failed = TRUE]
    ELSE IF F.pos[p] < Len(D[p].lines)
         THEN [F EXCEPT !.pos[p] = @ + 1, !.printed = Append(@, <<"", D[p].lines[F.pos[p] + 1]>>)]
         ELSE F

\* logs.rs 189-203: follow_both_logs up to the loop
follow_both_logs_open(F, D, id) ==
    [F EXCEPT !.mode = "both", !.st = "following", !.id = id,
              !.open = [p \in DOMAIN F.open |-> D[p].exists],
              !.pos = [p \in DOMAIN F.pos |-> IF D[p].exists THEN seek_end(D[p]) ELSE 0],
              !.present = [p \in DOMAIN F.present |-> Len(D[p].lines)],
              !.existed = [p \in DOMAIN F.existed |-> D[p].exists]]

\* one read of a stream inside the loop of follow_both_logs (logs.rs 212-221
\* and 224-233); read errors are ignored there
follow_both_logs_read(F, D, p, label) ==
    IF F.open[p] /\ F.pos[p] < Len(D[p].lines)
    THEN [F EXCEPT !.pos[p] = @ + 1, !.printed = Append(@, <<label, D[p].lines[F.pos[p] + 1]>>)]
    ELSE F

\* logs.rs 208-238: one turn of the loop, stdout first, then stderr
follow_both_logs_turn(F, D) ==
    follow_both_logs_read(follow_both_logs_read(F, D, stdout_log_path, "[OUT] "),
                          D, stderr_log_path, "[ERR] ")

LogsInit == [dir |-> [id \in IDS |-> NoLogs], tail |-> NoTail, follow |-> NoFollow]

(***************************************************************************)
(* The state machine.  last is a history variable: the operation that made *)
(* the latest step, its identifier argument, its result, the signals it    *)
(* sent, the processes it spawned and the restart attempts it made.  A     *)
(* specification records it (c.trace) or leaves it alone.                  *)
(***************************************************************************)
NoOp == [op |-> "init", arg |-> << >>, res |-> "Ok", sigs |-> << >>,
         spawned |-> << >>, attempts |-> << >>]

Last(op, arg, r) ==
    [op |-> op, arg |-> arg, res |-> r.res, sigs |-> r.sigs, spawned |-> r.spawned,
     attempts |-> << >>]

Log(c, rec) == last' = IF c.trace THEN rec ELSE last

Install(m) ==
    /\ tasks' = m.tasks
    /\ file' = m.file
    /\ procs' = m.procs
    /\ running_processes' = m.running
    /\ fs' = fs
    /\ env' = env
    /\ logs' = logs

Init ==
    /\ tasks = << >>
    /\ file = << >>
    /\ procs = [p \in Pids |-> NoProc]
    /\ running_processes = [id \in IDS |-> NoPid]
    /\ fs = BinaryFiles
    /\ issued = {}
    /\ last = NoOp
    /\ env = EnvInit
    /\ logs = LogsInit

\* Uuid::new_v4() yields an id never issued before; created_at is the time of the call
Create(c) ==
    \E t \in c.templates, id \in c.ids \ issued, d \in c.disks :
       /\ ~NameTaken(tasks, t.name)
       /\ Len(tasks) < MaxTasks
       /\ LET r == create_task(Machine, t.name, t.binary, t.auto_restart, id,
                               Cardinality(issued) + 1, d)
          IN  /\ Install(r.m)
              /\ issued' = issued \cup {id}
              /\ Log(c, Last("create", t.name, Ret(r.m, r.res, << >>, << >>)))

\* create_task with a name that is taken returns before an id is generated
CreateDuplicate(c) ==
    \E t \in c.templates, d \in c.disks :
       /\ NameTaken(tasks, t.name)
       /\ LET r == create_task(Machine, t.name, t.binary, t.auto_restart, << >>,
                               Cardinality(issued) + 1, d)
          IN  /\ Install(r.m)
              /\ issued' = IF r.res = "TaskExists" THEN issued ELSE issued \cup {<< >>}
              /\ Log(c, Last("create", t.name, Ret(r.m, r.res, << >>, << >>)))

\* cmd.spawn() is reached: only then does the operating system choose a pid
ReachesSpawn(M, identifier) ==
    start_task(M, identifier, NoPid, TRUE).res = "ProcessStart"

Start(c) ==
    \E x \in c.idents, s \in {NoPid} \cup Pids, d \in c.disks :
       /\ IF ReachesSpawn(Machine, x) THEN SpawnFeasible(Machine, s) ELSE s = NoPid
       /\ LET r == start_task(Machine, x, s, d)
          IN  /\ Install(r.m)
              /\ Log(c, Last("start", x, r))
       /\ UNCHANGED issued

Stop(c) ==
    \E x \in c.idents, o \in c.oracles, d \in c.disks :
       /\ OracleUsable(Machine, x, o)
       /\ LET r == stop_task(Machine, x, o, d)
          IN  /\ Install(r.m)
              /\ Log(c, Last("stop", x, r))
       /\ UNCHANGED issued

Remove(c) ==
    \E x \in c.idents, o \in c.oracles, d \in c.disks :
       /\ OracleUsable(Machine, x, o)
       /\ LET r == remove_task(Machine, x, o, d)
          IN  /\ Install(r.m)
              /\ Log(c, Last("remove", x, r))
       /\ UNCHANGED issued

Refresh(c) ==
    \E d \in c.disks :
       /\ LET r == refresh_task_statuses(Machine, d)
          IN  /\ Install(r.m)
              /\ Log(c, Last("refresh", << >>, r))
       /\ UNCHANGED issued

Cleanup(c) ==
    \E d \in c.disks :
       /\ LET r == cleanup(Machine, d)
          IN  /\ Install(r.m)
              /\ Log(c, Last("cleanup", << >>, r))
       /\ UNCHANGED issued

Spawns == [1..MaxTasks -> {NoPid} \cup Pids]

\* c.cap bounds the restart counters a specification explores; a failing
\* disk (d = FALSE) fails from the n-th write of the pass on
CheckAndRestart(c) ==
    \E sp \in Spawns, d \in c.disks, n \in 0..(3 * MaxTasks) :
       /\ d <=> n = 0
       /\ n <= 3 * Len(tasks_to_restart(tasks))
       /\ \A i \in 1..Len(tasks) : tasks[i].restart_count < c.cap
       /\ \A k \in 1..MaxTasks : k > Len(tasks_to_restart(tasks)) => sp[k] = NoPid
       /\ LET r == check_and_restart_tasks(Machine, sp, n)
          IN  /\ r.feasible
              /\ Install(r.m)
              /\ Log(c, [Last("check_and_restart", << >>, r) EXCEPT !.attempts = r.attempts])
       /\ UNCHANGED issued

\* one tick of the daemon loop: cleanup, then check_and_restart_tasks, with
\* nothing else of this instance running in between; the registry file stays
\* writable
Tick(c) ==
    \E sp \in Spawns :
       \E r1 \in {cleanup(Machine, TRUE)} :
          \E r2 \in {check_and_restart_tasks(r1.m, sp, 0)} :
             /\ \A k \in 1..MaxTasks : k > Len(tasks_to_restart(r1.m.tasks)) => sp[k] = NoPid
             /\ r2.feasible
             /\ Install(r2.m)
             /\ Log(c, [Last("tick", << >>, r2) EXCEPT !.attempts = r2.attempts])
             /\ UNCHANGED issued

\* a supervised process terminates on its own, with an exit code or by a signal
ProcessExit(c) ==
    \E p \in Pids, x \in c.codes :
       /\ procs[p].st \in {"child", "orphan"}
       /\ procs' = Die(procs, p, x)
       /\ Log(c, [NoOp EXCEPT !.op = "exit"])
       /\ UNCHANGED <<tasks, file, running_processes, fs, issued, env, logs>>

\* manager.rs 28-46: TaskManager::new with the registry file in condition
\* cond: a file that does not exist and a file that is not a JSON list of
\* tasks give an empty registry, a file that cannot be read is an error
FileConditions == {"valid", "missing", "malformed", "unreadable"}

new(M, cond) ==
    IF cond = "missing" THEN [res |-> "Ok", tasks |-> << >>]
    ELSE IF cond = "unreadable" THEN [res |-> "Io", tasks |-> << >>]
    ELSE IF cond = "malformed" THEN [res |-> "Ok", tasks |-> << >>]
    ELSE [res |-> "Ok", tasks |-> M.file]

\* the supervising program ends and a new one is started (TaskManager::new):
\* the registry is loaded from the file, the live mapping is empty, the
\* children of the old instance are orphans and its zombies are reaped by init
NewInstance(c) ==
    /\ tasks' = new(Machine, "valid").tasks
    /\ running_processes' = [id \in IDS |-> NoPid]
    /\ procs' = [p \in Pids |-> IF procs[p].st = "child" THEN OrphanProc
                                ELSE IF procs[p].st = "zombie" THEN NoProc
                                ELSE procs[p]]
    /\ Log(c, [NoOp EXCEPT !.op = "new"])
    /\ UNCHANGED <<file, fs, issued, env, logs>>

\* the same with a registry file that was deleted, damaged or made
\* unreadable since it was written: when new() fails no supervisor starts;
\* a deleted or damaged file has lost its records
Load(c) ==
    \E cond \in FileConditions :
       LET r == new(Machine, cond)
       IN  /\ IF r.res = "Ok"
              THEN /\ tasks' = r.tasks
                   /\ file' = IF cond \in {"missing", "malformed"} THEN << >> ELSE file
                   /\ running_processes' = [id \in IDS |-> NoPid]
                   /\ procs' = [p \in Pids |-> IF procs[p].st = "child" THEN OrphanProc
                                               ELSE IF procs[p].st = "zombie" THEN NoProc
                                               ELSE procs[p]]
              ELSE UNCHANGED <<tasks, file, running_processes, procs>>
           /\ Log(c, [NoOp EXCEPT !.op = "new", !.arg = <<cond>>, !.res = r.res])
           /\ UNCHANGED <<fs, issued, env, logs>>

\* a second supervising instance (another invocation of the program) loads
\* the registry file, creates a task and saves, between two operations of
\* this instance
OtherInstance(c) ==
    \E t \in c.templates, id \in c.ids \ issued :
       LET M2 == [Machine EXCEPT !.tasks = new(Machine, "valid").tasks]
       IN  /\ ~NameTaken(M2.tasks, t.name)
           /\ Len(M2.tasks) < MaxTasks
           /\ LET r == create_task(M2, t.name, t.binary, t.auto_restart, id,
                                   Cardinality(issued) + 1, TRUE)
              IN  /\ file' = r.m.file
                  /\ issued' = issued \cup {id}
                  /\ Log(c, [NoOp EXCEPT !.op = "other", !.arg = t.name, !.res = r.res])
           /\ UNCHANGED <<tasks, procs, running_processes, fs, env, logs>>

\* the lines a .env file and a command line are made of
EnvLines ==
    { <<"K", "=", "1">>, <<"K", "=", "2">>, <<"J", "=", "1">>, <<"K", "=", "1", "=", "2">>, <<"K">> }

EnvFiles ==
    {NoDotenv} \cup { [exists |-> TRUE, lines |-> l] :
                        l \in {<< >>} \cup { <<x>> : x \in EnvLines }
                                      \cup { <<x, y>> : x \in EnvLines, y \in EnvLines } }

EnvVarLists ==
    {<< >>} \cup { <<x>> : x \in EnvLines }
            \cup { <<x, y>> : x \in {<<"K", "=", "1">>, <<"J", "=", "1">>}, y \in {<<"K", "=", "2">>} }

\* the .env file of the working directory is written, changed or deleted
EnvFileChange(c) ==
    \E f \in EnvFiles :
       /\ f # env.dotenv
       /\ env' = [env EXCEPT !.dotenv = f]
       /\ Log(c, [NoOp EXCEPT !.op = "dotenv"])
       /\ UNCHANGED <<tasks, file, procs, running_processes, fs, issued, logs>>

\* create_task, the part that builds the env of the task (manager.rs 74-99)
CreateEnv(c) ==
    \E ev \in EnvVarLists, w \in BOOLEAN :
       LET r == parse_env_vars(EmptyMap, ev)
       IN  /\ ~env.created
           /\ env' = IF r.res = "Ok"
                     THEN [env EXCEPT !.created = TRUE, !.workdir = w, !.explicit = r.env,
                                      !.task = load_env_file(r.env, w, env.dotenv)]
                     ELSE env
           /\ Log(c, [NoOp EXCEPT !.op = "create_env", !.res = r.res])
           /\ UNCHANGED <<tasks, file, procs, running_processes, fs, issued, logs>>

\* start_task, the part that builds the env passed to the process (manager.rs 218-237)
LaunchEnv(c) ==
    /\ env.created
    /\ env' = [env EXCEPT !.launched = TRUE,
                          !.read = IF env.workdir THEN env.dotenv ELSE NoDotenv,
                          !.passed = load_env_file(env.task, env.workdir, env.dotenv)]
    /\ Log(c, [NoOp EXCEPT !.op = "launch_env"])
    /\ UNCHANGED <<tasks, file, procs, running_processes, fs, issued, logs>>

\* a terminated child is collected outside the supervisor (SIGCHLD is
\* ignored, so the kernel reaps it): a later try_wait on its handle fails
LostChild(c) ==
    \E p \in Pids :
       /\ procs[p].st = "zombie"
       /\ procs' = [procs EXCEPT ![p] = NoProc]
       /\ Log(c, [NoOp EXCEPT !.op = "lost"])
       /\ UNCHANGED <<tasks, file, running_processes, fs, issued, env, logs>>

\* a binary is deleted from the file system, or installed again
BinaryChange(c) ==
    \E path \in c.volatile :
       /\ fs' = [fs EXCEPT ![path].exists = ~@]
       /\ Log(c, [NoOp EXCEPT !.op = "binary"])
       /\ UNCHANGED <<tasks, file, procs, running_processes, issued, env, logs>>

\* start_task together with what it does to the log directory of the task
StartLogs(c) ==
    \E x \in c.idents, s \in {NoPid} \cup Pids, d \in c.disks :
       /\ IF ReachesSpawn(Machine, x) THEN SpawnFeasible(Machine, s) ELSE s = NoPid
       /\ LET r == start_task(Machine, x, s, d)
          IN  /\ tasks' = r.m.tasks
              /\ file' = r.m.file
              /\ procs' = r.m.procs
              /\ running_processes' = r.m.running
              /\ logs' = [logs EXCEPT !.dir = start_task_logs(Machine, logs.dir, x, d)]
              /\ Log(c, Last("start", x, r))
       /\ UNCHANGED <<fs, issued, env>>

\* the live process of a task writes a line to its stdout or its stderr,
\* which it holds open in append mode
LogWrite(c) ==
    \E i \in 1..Len(tasks), path \in {stdout_log_path, stderr_log_path}, l \in c.lines :
       LET t == tasks[i]
           f == logs.dir[t.id][path]
       IN  /\ t.pid # NoPid
           /\ procs[t.pid].st = "child"
           /\ running_processes[t.id] = t.pid
           /\ f.exists
           /\ Len(f.lines) < MaxLogLines
           /\ logs' = [logs EXCEPT !.dir[t.id][path].lines = Append(@, l)]
           /\ Log(c, [NoOp EXCEPT !.op = "write", !.arg = t.id])
           /\ UNCHANGED <<tasks, file, procs, running_processes, fs, issued, env>>

\* the files read_log_lines is called on: up to MaxLogLines + 1 lines
RECURSIVE FilesUpTo(_)
FilesUpTo(n) ==
    IF n = 0 THEN { << >> }
    ELSE LET shorter == FilesUpTo(n - 1)
         IN  shorter \cup { Append(x, l) : x \in shorter, l \in {"a", "b"} }

TailFiles == {NoFile} \cup { [exists |-> TRUE, lines |-> x] : x \in FilesUpTo(MaxLogLines + 1) }

\* a log file, a line count and whether the file can be read are given
InitTail ==
    /\ tasks = << >>
    /\ file = << >>
    /\ procs = [p \in Pids |-> NoProc]
    /\ running_processes = [id \in IDS |-> NoPid]
    /\ fs = BinaryFiles
    /\ issued = {}
    /\ last = NoOp
    /\ env = EnvInit
    /\ \E f \in TailFiles, n \in 0..(MaxLogLines + 2), r \in BOOLEAN :
          logs = [LogsInit EXCEPT !.tail = [NoTail EXCEPT !.f = f, !.n = n, !.readable = r]]

ReadLogLines ==
    /\ ~logs.tail.called
    /\ LET r == read_log_lines(logs.tail.f, logs.tail.n, logs.tail.readable)
       IN  logs' = [logs EXCEPT !.tail.called = TRUE, !.tail.res = r.res, !.tail.out = r.out]
    /\ last' = [NoOp EXCEPT !.op = "read_log_lines", !.res = logs'.tail.res]
    /\ UNCHANGED <<tasks, file, procs, running_processes, fs, issued, env>>

\* the log files a follow can find: missing, empty, or holding lines
FollowFiles == {NoFile} \cup { [exists |-> TRUE, lines |-> x] : x \in FilesUpTo(1) }

\* show_logs with follow = true on one stream of a task (logs.rs 137-140)
FollowSingle(c) ==
    \E id \in c.ids, p \in {stdout_log_path, stderr_log_path} :
       /\ logs.follow.st = "idle"
       /\ logs' = [logs EXCEPT !.follow = follow_single_log_open(@, logs.dir[id], id, p)]
       /\ Log(c, [NoOp EXCEPT !.op = "follow", !.arg = id])
       /\ UNCHANGED <<tasks, file, procs, running_processes, fs, issued, env>>

\* show_logs with follow = true on both streams (logs.rs 118-121)
FollowBoth(c) ==
    \E id \in c.ids :
       /\ logs.follow.st = "idle"
       /\ logs' = [logs EXCEPT !.follow = follow_both_logs_open(@, logs.dir[id], id)]
       /\ Log(c, [NoOp EXCEPT !.op = "follow", !.arg = id])
       /\ UNCHANGED <<tasks, file, procs, running_processes, fs, issued, env>>

\* the loop of the follow takes a turn
FollowPoll(c) ==
    /\ logs.follow.st = "following"
    /\ \/ /\ logs.follow.mode = "single"
          /\ \E p \in {stdout_log_path, stderr_log_path}, err \in c.errs :
                /\ logs.follow.open[p]
                /\ logs' = [logs EXCEPT !.follow =
                               follow_single_log_turn(@, logs.dir[logs.follow.id], p, err)]
       \/ /\ logs.follow.mode = "both"
          /\ logs' = [logs EXCEPT !.follow = follow_both_logs_turn(@, logs.dir[logs.follow.id])]
    /\ Log(c, [NoOp EXCEPT !.op = "poll"])
    /\ UNCHANGED <<tasks, file, procs, running_processes, fs, issued, env>>

\* a process of the task, launched by another invocation of the tool, opens
\* a log that does not exist or appends a line to one that does
LogGrow(c) ==
    \E id \in c.ids, p \in {stdout_log_path, stderr_log_path}, l \in c.lines :
       LET f == logs.dir[id][p]
       IN  /\ Len(f.lines) < MaxLogLines
           /\ logs' = IF f.exists THEN [logs EXCEPT !.dir[id][p].lines = Append(@, l)]
                      ELSE [logs EXCEPT !.dir[id] = open_append(@, p)]
           /\ Log(c, [NoOp EXCEPT !.op = "write", !.arg = id])
           /\ UNCHANGED <<tasks, file, procs, running_processes, fs, issued, env>>

(***************************************************************************)
(* Spec: every operation and the environment, history not recorded         *)
(***************************************************************************)
Inputs ==
    [templates |-> Templates, ids |-> {<<"a", "a">>, <<"b", "a">>}, idents |-> Identifiers,
     oracles |-> {QuietOracle, DeafOracle}, disks |-> {TRUE}, codes |-> {0, NoCode},
     cap |-> MaxRestarts, volatile |-> {}, trace |-> FALSE]

Next ==
    \/ Create(Inputs)
    \/ CreateDuplicate(Inputs)
    \/ Start(Inputs)
    \/ Stop(Inputs)
    \/ Remove(Inputs)
    \/ Refresh(Inputs)
    \/ Cleanup(Inputs)
    \/ CheckAndRestart(Inputs)
    \/ ProcessExit(Inputs)
    \/ NewInstance(Inputs)

Spec == Init /\ [][Next]_vars

(***************************************************************************)
(* SpecRegistry: create, lookup and remove over three ids and three names, *)
(* with starts so that the records differ and creates whose save may fail; *)
(* history recorded                                                        *)
(***************************************************************************)
RegistryInputs ==
    [templates |-> { Template(<<"a">>, "ok", FALSE),
                     Template(<<"a", "b">>, "ok", FALSE),
                     Template(<<"z">>, "noexec", TRUE) },
     ids |-> IDS,
     idents |-> {<< >>, <<"a">>, <<"a", "b">>, <<"z">>, <<"b", "a">>, <<"q">>},
     oracles |-> {QuietOracle}, disks |-> {TRUE}, codes |-> {0},
     cap |-> MaxRestarts, volatile |-> {}, trace |-> TRUE]

NextRegistry ==
    \/ Create([RegistryInputs EXCEPT !.disks = BOOLEAN])
    \/ CreateDuplicate(RegistryInputs)
    \/ Start(RegistryInputs)
    \/ Remove(RegistryInputs)

SpecRegistry == Init /\ [][NextRegistry]_vars

(***************************************************************************)
(* SpecStart: start_task over every kind of binary, with saves that may    *)
(* fail, processes that exit and supervising instances that come and go;   *)
(* history recorded                                                        *)
(***************************************************************************)
StartInputs ==
    [templates |-> {Template(<<"a">>, b, FALSE) : b \in Binaries}
                   \cup {Template(<<"a", "b">>, "ok", FALSE)},
     ids |-> {<<"a", "a">>, <<"b", "a">>},
     idents |-> {<<"a">>, <<"b", "a">>, <<"q">>},
     oracles |-> {QuietOracle}, disks |-> {TRUE}, codes |-> {0},
     cap |-> MaxRestarts, volatile |-> {}, trace |-> TRUE]

NextStart ==
    \/ Create(StartInputs)
    \/ Start([StartInputs EXCEPT !.disks = BOOLEAN])
    \/ ProcessExit(StartInputs)
    \/ NewInstance(StartInputs)

SpecStart == Init /\ [][NextStart]_vars

(***************************************************************************)
(* SpecStop: stop_task under every course the signals can take, with saves *)
(* that may fail; history recorded                                         *)
(***************************************************************************)
StopInputs ==
    [templates |-> {Template(<<"a">>, "ok", FALSE), Template(<<"a", "b">>, "noexec", FALSE)},
     ids |-> {<<"a", "a">>, <<"b", "a">>},
     idents |-> {<<"a">>, <<"a", "b">>, <<"b", "a">>, <<"q">>},
     oracles |-> StopOracles, disks |-> {TRUE}, codes |-> {0},
     cap |-> MaxRestarts, volatile |-> {}, trace |-> TRUE]

NextStop ==
    \/ Create(StopInputs)
    \/ Start(StopInputs)
    \/ Stop([StopInputs EXCEPT !.disks = BOOLEAN])
    \/ ProcessExit(StopInputs)
    \/ NewInstance(StopInputs)

SpecStop == Init /\ [][NextStop]_vars


(***************************************************************************)
(* SpecRemove: remove_task of stopped and of running tasks, under the      *)
(* courses the signals of its stop can take (all delivered, none           *)
(* delivered, process gone meanwhile, SIGTERM ignored, fallbacks to the    *)
(* pid) and with saves that may fail; history recorded                     *)
(***************************************************************************)
RemoveOracles ==
    { QuietOracle, DeafOracle,
      [DeafOracle EXCEPT !.gone = TRUE],
      [QuietOracle EXCEPT !.react = "ignore"],
      [QuietOracle EXCEPT !.react = "ignore", !.tg = FALSE, !.kg = FALSE],
      [DeafOracle EXCEPT !.tp = TRUE] }

RemoveInputs == [StopInputs EXCEPT !.oracles = RemoveOracles, !.disks = BOOLEAN]

NextRemove ==
    \/ Create(StopInputs)
    \/ Start(StopInputs)
    \/ Remove(RemoveInputs)
    \/ ProcessExit(StopInputs)
    \/ NewInstance(StopInputs)

SpecRemove == Init /\ [][NextRemove]_vars

(***************************************************************************)
(* SpecReconcile: the two reconciliations, refresh_task_statuses and       *)
(* cleanup, over children that exit with a code or by a signal, orphans    *)
(* of earlier instances and children collected elsewhere, with saves that  *)
(* may fail; history recorded                                              *)
(***************************************************************************)
ReconcileInputs ==
    [templates |-> {Template(<<"a">>, "ok", FALSE), Template(<<"a", "b">>, "ok", FALSE)},
     ids |-> {<<"a", "a">>, <<"b", "a">>},
     idents |-> {<<"a">>, <<"b", "a">>},
     oracles |-> {QuietOracle}, disks |-> {TRUE}, codes |-> {0, 1, NoCode},
     cap |-> MaxRestarts, volatile |-> {}, trace |-> TRUE]

NextReconcile ==
    \/ Create(ReconcileInputs)
    \/ Start(ReconcileInputs)
    \/ Refresh([ReconcileInputs EXCEPT !.disks = BOOLEAN])
    \/ Cleanup([ReconcileInputs EXCEPT !.disks = BOOLEAN])
    \/ ProcessExit(ReconcileInputs)
    \/ LostChild(ReconcileInputs)
    \/ NewInstance(ReconcileInputs)

SpecReconcile == Init /\ [][NextReconcile]_vars

(***************************************************************************)
(* SpecRestart: check_and_restart_tasks over a registry in which the name  *)
(* of an auto-restart task may be the prefix of another task's id, with    *)
(* binaries that are deleted and installed again; history recorded         *)
(***************************************************************************)
RestartInputs ==
    [templates |-> { Template(<<"a">>, "noexec", TRUE),
                     Template(<<"a", "b">>, "ok", FALSE) },
     ids |-> {<<"a", "a">>, <<"b", "a">>},
     idents |-> {<<"a", "b">>, <<"b", "a">>},
     oracles |-> {QuietOracle}, disks |-> {TRUE}, codes |-> {0},
     cap |-> MaxRestarts, volatile |-> {"ok"}, trace |-> TRUE]

NextRestart ==
    \/ Create(RestartInputs)
    \/ Start(RestartInputs)
    \/ Stop(RestartInputs)
    \/ ProcessExit(RestartInputs)
    \/ Cleanup(RestartInputs)
    \/ CheckAndRestart(RestartInputs)
    \/ BinaryChange(RestartInputs)

SpecRestart == Init /\ [][NextRestart]_vars


(***************************************************************************)
(* SpecCap: restart passes until the attempt cap is passed.  Starts fail   *)
(* at spawn or succeed, restart counters take every value the program can  *)
(* give them; history recorded                                             *)
(***************************************************************************)
CapInputs ==
    [templates |-> { Template(<<"a">>, "ok", TRUE),
                     Template(<<"a", "b">>, "ok", TRUE) },
     ids |-> {<<"a", "a">>, <<"b", "a">>},
     idents |-> {<<"a", "a">>, <<"b", "a">>},
     oracles |-> {QuietOracle}, disks |-> {TRUE}, codes |-> {1},
     cap |-> MAX_RESTART_ATTEMPTS + 2, volatile |-> {}, trace |-> TRUE]

NextCap ==
    \/ Create(CapInputs)
    \/ Start(CapInputs)
    \/ CheckAndRestart(CapInputs)

SpecCap == Init /\ [][NextCap]_vars


(***************************************************************************)
(* SpecTick: the restart pass next to manual starts and stops; history     *)
(* recorded                                                                *)
(***************************************************************************)
TickInputs ==
    [templates |-> { Template(<<"a">>, "ok", TRUE),
                     Template(<<"a", "b">>, "ok", TRUE) },
     ids |-> {<<"a", "a">>, <<"b", "a">>},
     idents |-> {<<"a", "a">>, <<"b", "a">>},
     oracles |-> {QuietOracle}, disks |-> {TRUE}, codes |-> {1},
     cap |-> MaxRestarts, volatile |-> {}, trace |-> TRUE]

NextTick ==
    \/ Create(TickInputs)
    \/ Start(TickInputs)
    \/ Stop(TickInputs)
    \/ CheckAndRestart(TickInputs)

SpecTick == Init /\ [][NextTick]_vars

(***************************************************************************)
(* SpecPass: restart passes during which the registry file may stop being  *)
(* writable; history recorded                                              *)
(***************************************************************************)
NextPass ==
    \/ Create(TickInputs)
    \/ Start(TickInputs)
    \/ CheckAndRestart([TickInputs EXCEPT !.disks = BOOLEAN])

SpecPass == Init /\ [][NextPass]_vars


(***************************************************************************)
(* SpecPersist: every operation on one task, with a registry file whose    *)
(* writes may fail, and supervisors that load it; history recorded        *)
(***************************************************************************)
PersistInputs ==
    [templates |-> { Template(<<"a">>, "ok", TRUE),
                     Template(<<"a", "b">>, "ok", FALSE) },
     ids |-> {<<"a", "a">>},
     idents |-> {<<"a", "a">>},
     oracles |-> {QuietOracle}, disks |-> {TRUE}, codes |-> {1},
     cap |-> MaxRestarts, volatile |-> {}, trace |-> TRUE]

NextPersist ==
    \/ Create([PersistInputs EXCEPT !.disks = BOOLEAN])
    \/ Start(PersistInputs)
    \/ Stop(PersistInputs)
    \/ Remove(PersistInputs)
    \/ Refresh([PersistInputs EXCEPT !.disks = BOOLEAN])
    \/ Cleanup([PersistInputs EXCEPT !.disks = BOOLEAN])
    \/ CheckAndRestart([PersistInputs EXCEPT !.disks = BOOLEAN])
    \/ ProcessExit(PersistInputs)
    \/ NewInstance(PersistInputs)

SpecPersist == Init /\ [][NextPersist]_vars


(***************************************************************************)
(* SpecLoad: supervisors started over a registry file in every condition;  *)
(* history recorded                                                        *)
(***************************************************************************)
NextLoad ==
    \/ Create(TickInputs)
    \/ Start(TickInputs)
    \/ ProcessExit(TickInputs)
    \/ Load(TickInputs)

SpecLoad == Init /\ [][NextLoad]_vars


(***************************************************************************)
(* SpecShared: two supervising instances over one registry file; history   *)
(* recorded                                                                *)
(***************************************************************************)
NextShared ==
    \/ Create(TickInputs)
    \/ Start(TickInputs)
    \/ Stop(TickInputs)
    \/ OtherInstance(TickInputs)

SpecShared == Init /\ [][NextShared]_vars


(***************************************************************************)
(* SpecEnv: a task created with variables on the command line, a .env file *)
(* that changes, and launches; history recorded                            *)
(***************************************************************************)
NextEnv ==
    \/ EnvFileChange(TickInputs)
    \/ CreateEnv(TickInputs)
    \/ LaunchEnv(TickInputs)

SpecEnv == Init /\ [][NextEnv]_vars


(***************************************************************************)
(* SpecLogs: one task whose process fills its logs, is started, stopped    *)
(* and removed, and a binary that can disappear                            *)
(***************************************************************************)
LogInputs ==
    [templates |-> {Template(<<"a">>, "ok", FALSE)}, ids |-> {<<"a", "a">>},
     idents |-> {<<"a">>}, oracles |-> {QuietOracle}, disks |-> {TRUE}, codes |-> {0},
     cap |-> MaxRestarts, volatile |-> {"ok"}, lines |-> {"big"}, trace |-> TRUE]

NextLogs ==
    \/ Create(LogInputs)
    \/ StartLogs(LogInputs)
    \/ Stop(LogInputs)
    \/ Remove(LogInputs)
    \/ BinaryChange(LogInputs)
    \/ LogWrite(LogInputs)

SpecLogs == Init /\ [][NextLogs]_vars

(***************************************************************************)
(* SpecTail: read_log_lines applied to every small file and line count     *)
(***************************************************************************)
NextTail == ReadLogLines

SpecTail == InitTail /\ [][NextTail]_vars

(***************************************************************************)
(* SpecFollow: a follow on the logs of a task while they grow.  The loop   *)
(* of the follow sleeps LOG_FOLLOW_INTERVAL and reads again for as long as *)
(* its process lives, so its turns are weakly fair.                        *)
(***************************************************************************)
FollowInputs ==
    [ids |-> {<<"a", "a">>}, lines |-> {"a", "b"}, errs |-> BOOLEAN, trace |-> FALSE]

\* the logs of the task are missing, empty or hold a line when the follow starts
InitFollow ==
    /\ tasks = << >>
    /\ file = << >>
    /\ procs = [p \in Pids |-> NoProc]
    /\ running_processes = [id \in IDS |-> NoPid]
    /\ fs = BinaryFiles
    /\ issued = {}
    /\ last = NoOp
    /\ env = EnvInit
    /\ \E id \in FollowInputs.ids, o \in FollowFiles, e \in FollowFiles :
          logs = [LogsInit EXCEPT !.dir[id][stdout_log_path] = o,
                                  !.dir[id][stderr_log_path] = e]

NextFollow ==
    \/ FollowSingle(FollowInputs)
    \/ FollowBoth(FollowInputs)
    \/ FollowPoll(FollowInputs)
    \/ LogGrow(FollowInputs)

SpecFollow == InitFollow /\ [][NextFollow]_vars /\ WF_vars(FollowPoll(FollowInputs))

(***************************************************************************)
(* SpecDaemon: one supervising instance in daemon mode.  Tasks are created *)
(* and started, their processes die, and the ticks of the loop keep        *)
(* running: the interval timer fires again after every tick, so Tick is    *)
(* weakly fair.  A process dies only while no restart counter has reached  *)
(* MaxRestarts.                                                            *)
(***************************************************************************)
NextDaemon ==
    \/ Create(TickInputs)
    \/ Start(TickInputs)
    \/ (\A i \in 1..Len(tasks) : tasks[i].restart_count < MaxRestarts) /\ ProcessExit(TickInputs)
    \/ Tick(TickInputs)

SpecDaemon == Init /\ [][NextDaemon]_vars /\ WF_vars(Tick(TickInputs))

(***************************************************************************)
(* SpecIdent: start, stop and remove called with the empty identifier,     *)
(* with an identifier that matches no task, and with a full id             *)
(***************************************************************************)
IdentInputs ==
    [TickInputs EXCEPT !.idents = {<< >>, <<"c">>, <<"a", "c">>, <<"a", "a">>}]

NextIdent ==
    \/ Create(IdentInputs)
    \/ Start(IdentInputs)
    \/ Stop(IdentInputs)
    \/ Remove(IdentInputs)

SpecIdent == Init /\ [][NextIdent]_vars

(***************************************************************************)
(* Properties.  Arg is the identifier the latest operation was called      *)
(* with and Target the index find_task resolves it to before the call.     *)
(***************************************************************************)
Chars == {"a", "b", "z"}
Strings == {<< >>} \cup {<<x>> : x \in Chars} \cup {<<x, y>> : x \in Chars, y \in Chars}

Others(i) == {j \in 1..Len(tasks) : j # i}

\* C1: in every reachable state no two registered tasks have the same name
\* and no two have the same id
C1_UniqueNamesAndIds ==
    \A i \in 1..Len(tasks) : \A j \in 1..Len(tasks) :
        i # j => (tasks[i].name # tasks[j].name /\ tasks[i].id # tasks[j].id)

C1_Witness ==
    /\ Len(tasks) = 2
    /\ \E i \in 1..Len(tasks) : tasks[i].restart_count > 0
    /\ \E i \in 1..Len(tasks) : tasks[i].status = "Stopped" /\ tasks[i].last_started = "Some"

\* C2: create_task with the name of a registered task returns TaskExists and
\* leaves the in-memory task list and the persisted file as they were
C2_DuplicateCreateRejected ==
    [][(last'.op = "create" /\ NameTaken(tasks, last'.arg))
         => (last'.res = "TaskExists" /\ tasks' = tasks /\ file' = file)]_vars

C2_Witness ==
    /\ last.op = "create"
    /\ last.res = "TaskExists"
    /\ Len(tasks) = 2
    /\ \E i \in 1..Len(tasks) : tasks[i].status = "Running"

\* C3: a successful create_task appends exactly one task after all existing
\* ones, Stopped, without pid, restart count 0, never started, no exit code,
\* persists the registry and changes no earlier task
C3_CreateAppends ==
    [][(last'.op = "create" /\ last'.res = "Ok")
         => LET n == Len(tasks)
                t == tasks'[n + 1]
            IN  /\ Len(tasks') = n + 1
                /\ SubSeq(tasks', 1, n) = tasks
                /\ t.name = last'.arg
                /\ t.status = "Stopped"
                /\ t.pid = NoPid
                /\ t.restart_count = 0
                /\ t.last_started = "None"
                /\ t.last_exit_code = NoCode
                /\ file' = tasks']_vars

C3_Witness ==
    /\ last.op = "create"
    /\ last.res = "Ok"
    /\ Len(tasks) = 2
    /\ tasks[1].status # "Stopped"

\* C4: find applies exact name, then exact id, then id prefix, in that
\* priority: a name match wins over any id or prefix match, an id match over
\* any prefix match
C4_FindByPriority ==
    \A x \in Strings :
        LET i == find_task(tasks, x)
            byName == \E k \in 1..Len(tasks) : tasks[k].name = x
            byId == \E k \in 1..Len(tasks) : tasks[k].id = x
        IN  /\ byName => tasks[i].name = x
            /\ (~byName /\ byId) => tasks[i].id = x

\* C5: when two or more ids start with an identifier that is no task's name
\* and no task's full id, find returns the earliest created of them
C5_Ambiguous(x) ==
    /\ Cardinality({i \in 1..Len(tasks) : StartsWith(tasks[i].id, x)}) >= 2
    /\ \A i \in 1..Len(tasks) : tasks[i].name # x /\ tasks[i].id # x

C5_PrefixTieEarliest ==
    \A x \in Strings :
        C5_Ambiguous(x) =>
            LET i == find_task(tasks, x)
            IN  /\ i # 0
                /\ StartsWith(tasks[i].id, x)
                /\ \A j \in 1..Len(tasks) :
                      StartsWith(tasks[j].id, x) => tasks[i].created_at <= tasks[j].created_at

\* a shared non-empty prefix, after a task was removed and another created
C5_Witness ==
    /\ C5_Ambiguous(<<"a">>)
    /\ Cardinality(issued) > Len(tasks)
    /\ last.op = "create"


Target == find_task(tasks, last'.arg)

MachineAfter ==
    [tasks |-> tasks', file |-> file', procs |-> procs', running |-> running_processes',
     fs |-> fs']

OthersUnchanged(i) ==
    /\ Len(tasks') = Len(tasks)
    /\ \A j \in Others(i) : tasks'[j] = tasks[j]

\* the task is recorded Running with a pid that passes the liveness probe
RunningLive(t) == t.status = "Running" /\ t.pid # NoPid /\ is_process_running(procs, t.pid)

\* C6: after a successful start_task the task, and no other, is Running with
\* the pid of the process just spawned and lastStarted set, the live mapping
\* holds that process under the task's id, restartCount and lastExitCode are
\* as before and the registry is persisted
C6_StartSuccess ==
    [][(last'.op = "start" /\ last'.res = "Ok")
         => LET i == Target
                t == tasks'[i]
            IN  /\ i # 0
                /\ t.status = "Running"
                /\ t.pid # NoPid
                /\ procs[t.pid].st = "none"
                /\ procs'[t.pid].st = "child"
                /\ last'.spawned = << <<tasks[i].id, t.pid>> >>
                /\ running_processes'[tasks[i].id] = t.pid
                /\ t.last_started = "Some"
                /\ t.restart_count = tasks[i].restart_count
                /\ t.last_exit_code = tasks[i].last_exit_code
                /\ t.id = tasks[i].id /\ t.name = tasks[i].name
                /\ OthersUnchanged(i)
                /\ file' = tasks']_vars

\* a start that succeeds while another task is running
C6_Witness ==
    /\ last.op = "start"
    /\ last.res = "Ok"
    /\ Len(tasks) = 2
    /\ \A i \in 1..Len(tasks) : tasks[i].status = "Running"

\* C7: start_task on a task that is Running with a pid that passes the
\* liveness probe returns TaskAlreadyRunning, spawns nothing and leaves the
\* registry, the file and the live mapping unchanged
C7_AlreadyRunning ==
    [][(last'.op = "start" /\ Target # 0 /\ RunningLive(tasks[Target]))
         => /\ last'.res = "TaskAlreadyRunning"
            /\ last'.spawned = << >>
            /\ UNCHANGED <<tasks, file, procs, running_processes>>]_vars

C7_Witness ==
    /\ last.op = "start"
    /\ last.res = "TaskAlreadyRunning"

\* what validation is to report for a file, in the documented order
ExpectedValidation(f) ==
    IF ~f.exists THEN "BinaryNotFound"
    ELSE IF ~f.exec THEN "BinaryNotExecutable"
    ELSE IF f.shebang /\ ~f.interp THEN "InterpreterNotFound"
    ELSE "Ok"

\* C8: when validation of the binary fails at start, the error is returned,
\* no process is spawned, no handle is added and the task ends Failed with
\* pid None; a text file without a shebang passes validation
C8_ValidationFailure ==
    [][(/\ last'.op = "start"
        /\ Target # 0
        /\ ~RunningLive(tasks[Target])
        /\ ExpectedValidation(fs[tasks[Target].binary]) # "Ok")
         => /\ last'.res = ExpectedValidation(fs[tasks[Target].binary])
            /\ last'.spawned = << >>
            /\ UNCHANGED <<procs, running_processes>>
            /\ tasks'[Target].status = "Failed"
            /\ tasks'[Target].pid = NoPid
            /\ validate_binary(BinaryFiles, "plain") = "Ok"]_vars

\* C9: when stop_task succeeds on a task that was Running with a live
\* process, the task is Stopped with pid None, the live mapping holds no
\* handle for its id, the registry is persisted and no other task changed
C9_StopSuccess ==
    [][(last'.op = "stop" /\ last'.res = "Ok" /\ Target # 0 /\ RunningLive(tasks[Target]))
         => LET i == Target
            IN  /\ tasks'[i].status = "Stopped"
                /\ tasks'[i].pid = NoPid
                /\ running_processes'[tasks[i].id] = NoPid
                /\ tasks'[i] = clear_pid(set_status(tasks[i], "Stopped"))
                /\ OthersUnchanged(i)
                /\ file' = tasks']_vars

\* a process that ignored SIGTERM was stopped
C9_Witness ==
    /\ last.op = "stop"
    /\ last.res = "Ok"
    /\ \E k \in 1..Len(last.sigs) : last.sigs[k] = "SIGKILL_group"

Graceful == {"SIGTERM_group", "SIGTERM_pid"}
Forceful == {"SIGKILL_group", "SIGKILL_pid"}

\* every course the supervisor's stop can take in the current state
StopCalls == {c \in [id : IDS, pid : Pids, o : StopOracles] : OracleFeasible(procs, c.pid, c.o)}

\* C11: in every execution of the supervisor's stop a forceful signal is
\* preceded by a delivered graceful signal and then by the whole grace
\* period, and is sent only if the probe after the grace period found the
\* process alive
C11_KillOnlyAfterGrace ==
    \A c \in StopCalls :
       LET s == pm_stop_task(Machine, c.id, c.pid, c.o).sigs
       IN  \A k \in 1..Len(s) :
              s[k] \in Forceful
                 => /\ \E i \in 1..k, j \in 1..k : i < j /\ j < k /\ s[i] \in Graceful /\ s[j] = "sleep"
                    /\ c.o.tg \/ c.o.tp
                    /\ is_process_running(AfterGrace(Machine, c.pid, c.o).procs, c.pid)

\* a stop went through the whole escalation, with both fallbacks
C11_Witness ==
    /\ last.op = "stop"
    /\ last.sigs = <<"SIGTERM_group", "SIGTERM_pid", "sleep", "SIGKILL_group", "SIGKILL_pid">>
    /\ last.res = "Ok"

\* the process after a delivery that failed for the group and for the pid
AfterFailedDelivery(pid, o) == IF o.gone THEN Die(procs, pid, NoCode) ELSE procs

\* C12: the supervisor's stop signals the group first and the pid only when
\* the group could not be signalled, for SIGTERM and for SIGKILL; it returns
\* ProcessStop only when both deliveries failed and the process is still
\* alive, and success at once when the process is dead after a failed delivery
C12_GroupThenPid ==
    \A c \in StopCalls :
       LET r == pm_stop_task(Machine, c.id, c.pid, c.o)
           s == r.sigs
           n == Len(s)
       IN  /\ r.res \in {"Ok", "ProcessStop"}
           /\ n > 0 => s[1] = "SIGTERM_group"
           /\ \A k \in 1..n :
                 /\ s[k] = "SIGTERM_pid" => (k = 2 /\ ~c.o.tg)
                 /\ s[k] = "SIGKILL_pid" => (k > 1 /\ s[k - 1] = "SIGKILL_group" /\ ~c.o.kg)
                 /\ (s[k] = "SIGTERM_group" /\ ~c.o.tg) => (k < n /\ s[k + 1] = "SIGTERM_pid")
                 /\ (s[k] = "SIGKILL_group" /\ ~c.o.kg) => (k < n /\ s[k + 1] = "SIGKILL_pid")
                 /\ (s[k] = "SIGTERM_group" /\ c.o.tg) => (k < n /\ s[k + 1] = "sleep")
                 /\ (s[k] = "SIGKILL_group" /\ c.o.kg) => k = n
           /\ r.res = "ProcessStop"
                 => /\ n >= 2
                    /\ \/ s[n] = "SIGTERM_pid" /\ ~c.o.tg /\ ~c.o.tp
                       \/ s[n] = "SIGKILL_pid" /\ ~c.o.kg /\ ~c.o.kp
                    /\ is_process_running(r.m.procs, c.pid)
           /\ (/\ is_process_running(procs, c.pid)
               /\ ~c.o.tg /\ ~c.o.tp
               /\ ~is_process_running(AfterFailedDelivery(c.pid, c.o), c.pid))
                 => (r.res = "Ok" /\ s = <<"SIGTERM_group", "SIGTERM_pid">>)

\* a stop failed after SIGKILL could be delivered neither to the group nor to the pid
C12_Witness ==
    /\ last.op = "stop"
    /\ last.res = "ProcessStop"
    /\ Len(last.sigs) = 5
    /\ last.sigs[5] = "SIGKILL_pid"

\* C13: after the supervisor's stop returns, with success or with
\* ProcessStop, the live mapping holds no handle for the task id
C13_HandleRemoved ==
    [][(last'.op = "stop" /\ Target # 0 /\ RunningLive(tasks[Target]))
         => running_processes'[tasks[Target].id] = NoPid]_vars


\* C14: remove_task deletes exactly the task find resolves; a Running task is
\* stopped first, by the whole stop procedure, and when that stop fails the
\* error is returned and no record is deleted; the other tasks keep their
\* fields and order and the registry is persisted after the deletion
C14_RemoveResolved ==
    [][(last'.op = "remove" /\ Target # 0)
         => LET i == Target
                t == tasks[i]
            IN  /\ last'.res = "Ok"
                     => /\ tasks' = RemoveAt(tasks, i)
                        /\ file' = tasks'
                        /\ t.status = "Running"
                             => \E o \in RemoveOracles, d \in BOOLEAN :
                                   LET r == stop_task(Machine, last'.arg, o, d)
                                   IN  /\ OracleUsable(Machine, last'.arg, o)
                                       /\ r.res = "Ok"
                                       /\ r.sigs = last'.sigs
                                       /\ r.m.procs = procs'
                                       /\ r.m.running = running_processes'
                        /\ RunningLive(t) => running_processes'[t.id] = NoPid
                        /\ t.status # "Running"
                             => (last'.sigs = << >> /\ UNCHANGED <<procs, running_processes>>)
                /\ (last'.res # "Ok" /\ t.status = "Running")
                     => /\ Len(tasks') = Len(tasks)
                        /\ tasks'[i].id = t.id
                        /\ OthersUnchanged(i)
                        /\ file' = file
                        /\ last'.res = "ProcessStop" => tasks' = tasks]_vars

\* a running task was removed after SIGTERM stopped its process, another task stays
C14_Witness ==
    /\ last.op = "remove"
    /\ last.res = "Ok"
    /\ last.sigs = <<"SIGTERM_group", "sleep", "SIGKILL_group">>
    /\ Len(tasks) = 1
    /\ Cardinality(issued) = 2


\* C15: cleanup_zombies removes from the live mapping exactly the handles
\* whose process has terminated or whose wait fails, returns the exit code
\* of each terminated process that exited with one, leaves the handles and
\* the processes that are still running as they are, and touches no task
C15_ReapExactlyTerminated ==
    LET z == cleanup_zombies(Machine)
    IN  /\ \A id \in IDS :
              LET p == running_processes[id]
              IN  IF p = NoPid
                  THEN z.m.running[id] = NoPid /\ z.exit_codes[id] = NoCode
                  ELSE /\ procs[p].st = "child"
                            => (z.m.running[id] = p /\ z.exit_codes[id] = NoCode)
                       /\ procs[p].st = "zombie"
                            => /\ z.m.running[id] = NoPid
                               /\ z.exit_codes[id] = procs[p].code
                               /\ z.m.procs[p] = NoProc
                       /\ procs[p].st = "none"
                            => (z.m.running[id] = NoPid /\ z.exit_codes[id] = NoCode)
                       /\ procs[p].st # "orphan"
        /\ \A p \in Pids :
              (procs[p].st # "zombie" \/ \A id \in IDS : running_processes[id] # p)
                 => z.m.procs[p] = procs[p]
        /\ z.m.tasks = tasks
        /\ z.m.file = file
        /\ z.m.fs = fs

\* a cleanup reaped a process that exited with code 1 and left a running one tracked
C15_Witness ==
    /\ last.op = "cleanup"
    /\ \E i \in 1..Len(tasks) : tasks[i].last_exit_code = 1 /\ running_processes[tasks[i].id] = NoPid
    /\ \E id \in IDS : running_processes[id] # NoPid /\ procs[running_processes[id]].st = "child"

\* the task is Running with a recorded pid that fails the liveness probe
RunningDead(t) == t.status = "Running" /\ t.pid # NoPid /\ ~is_process_running(procs, t.pid)

\* C16: refresh_task_statuses sets to Stopped with pid None exactly the tasks
\* that are Running with a pid failing the liveness probe, sets no task to
\* Failed, changes no lastExitCode or restartCount, leaves every other task
\* and the processes unchanged and persists only when it changed something
C16_RefreshStopsDead ==
    [][last'.op = "refresh"
         => /\ Len(tasks') = Len(tasks)
            /\ \A i \in 1..Len(tasks) :
                  /\ RunningDead(tasks[i])
                       => tasks'[i] = [tasks[i] EXCEPT !.status = "Stopped", !.pid = NoPid]
                  /\ ~RunningDead(tasks[i]) => tasks'[i] = tasks[i]
                  /\ tasks'[i].status = "Failed" => tasks[i].status = "Failed"
                  /\ tasks'[i].last_exit_code = tasks[i].last_exit_code
                  /\ tasks'[i].restart_count = tasks[i].restart_count
            /\ UNCHANGED <<procs, running_processes>>
            /\ (\A i \in 1..Len(tasks) : ~RunningDead(tasks[i]))
                  => (file' = file /\ last'.res = "Ok")
            /\ (\E i \in 1..Len(tasks) : RunningDead(tasks[i]))
                  => IF last'.res = "Ok" THEN file' = tasks' ELSE file' = file]_vars

\* a refresh stopped a task whose process was gone, kept a running one and
\* the exit code an earlier cleanup had recorded
C16_Witness ==
    /\ last.op = "refresh"
    /\ last.res = "Ok"
    /\ file = tasks
    /\ \E i \in 1..Len(tasks) :
          tasks[i].status = "Stopped" /\ tasks[i].last_started = "Some"
    /\ \E i \in 1..Len(tasks) : tasks[i].status = "Running" /\ is_process_running(procs, tasks[i].pid)

\* C17: after cleanup every task whose handle was reaped in that step is
\* Failed with pid None and, when the reaped process exited with a code, has
\* that code as lastExitCode; a task whose handle was not reaped and whose
\* process is alive is unchanged
C17_CleanupFailsReaped ==
    [][last'.op = "cleanup"
         => \A i \in 1..Len(tasks) :
               LET t == tasks[i]
                   p == running_processes[t.id]
               IN  /\ Len(tasks') = Len(tasks)
                   /\ (p # NoPid /\ procs[p].st = "zombie")
                        => /\ tasks'[i].status = "Failed"
                           /\ tasks'[i].pid = NoPid
                           /\ procs[p].code # NoCode => tasks'[i].last_exit_code = procs[p].code
                   /\ (~(p # NoPid /\ procs[p].st = "zombie")
                         /\ t.pid # NoPid /\ procs[t.pid].st \in {"child", "orphan"})
                        => tasks'[i] = t]_vars


\* some task that is registered before and after the step has another lastExitCode
ExitCodeChanged ==
    \E i \in 1..Len(tasks), j \in 1..Len(tasks') :
       tasks'[j].id = tasks[i].id /\ tasks'[j].last_exit_code # tasks[i].last_exit_code

\* C18: lastExitCode is written only by cleanup: a step that changes the
\* lastExitCode of a task is a cleanup, so create, start, stop, remove,
\* refresh_task_statuses and check_and_restart_tasks never change it
C18_ExitCodeOnlyByCleanup ==
    [][ExitCodeChanged
         => \E d \in BOOLEAN :
               LET r == cleanup(Machine, d)
               IN  /\ tasks' = r.m.tasks
                   /\ procs' = r.m.procs
                   /\ running_processes' = r.m.running
                   /\ file' = r.m.file]_vars

\* a task runs again, restarted by check_and_restart_tasks, and still has the
\* exit code a cleanup recorded for its previous run
C18_Witness ==
    \E i \in 1..Len(tasks) :
       /\ tasks[i].last_exit_code = 0
       /\ tasks[i].status = "Running"
       /\ tasks[i].restart_count > 0

\* C19: in every reachable state a task that has a pid is Running
C19_PidOnlyWhenRunning ==
    \A i \in 1..Len(tasks) : tasks[i].pid # NoPid => tasks[i].status = "Running"

\* selected by check_and_restart_tasks at the beginning of the pass
Selected(t) ==
    t.auto_restart /\ t.status = "Failed" /\ t.restart_count <= MAX_RESTART_ATTEMPTS

\* C20: check_and_restart_tasks attempts to start exactly the tasks that are
\* selected at the beginning of the pass and never starts, or changes the
\* status, pid or restartCount of, a task that is not selected
C20_RestartOnlySelected ==
    [][last'.op = "check_and_restart"
         => /\ Len(tasks') = Len(tasks)
            /\ \A i \in 1..Len(tasks) :
                  /\ Selected(tasks[i])
                       <=> \E k \in 1..Len(last'.attempts) : last'.attempts[k].id = tasks[i].id
                  /\ ~Selected(tasks[i])
                       => /\ tasks'[i].status = tasks[i].status
                          /\ tasks'[i].pid = tasks[i].pid
                          /\ tasks'[i].restart_count = tasks[i].restart_count
                          /\ \A k \in 1..Len(last'.spawned) :
                                last'.spawned[k][1] # tasks[i].id]_vars

\* the task that start_task(&task_name) of an attempt of the latest pass acts on
Retried(i) ==
    \E k \in 1..Len(last'.attempts) :
       /\ last'.attempts[k].res # "Aborted"
       /\ find_task(tasks, last'.attempts[k].name) = i

\* C21: on a pass of check_and_restart_tasks a Failed auto-restart task is
\* retried exactly when its restartCount is at most MAX_RESTART_ATTEMPTS, and
\* a task whose restartCount is above it is not retried and keeps its status
C21_RetriedWithinCap ==
    [][last'.op = "check_and_restart"
         => \A i \in 1..Len(tasks) :
               /\ tasks[i].auto_restart /\ tasks[i].status = "Failed"
                    => (Retried(i) <=> tasks[i].restart_count <= MAX_RESTART_ATTEMPTS)
               /\ tasks[i].restart_count > MAX_RESTART_ATTEMPTS
                    => /\ ~Retried(i)
                       /\ tasks'[i].status = tasks[i].status
                       /\ tasks'[i].restart_count = tasks[i].restart_count]_vars

\* C22: the number of automatic restart attempts made for a task (its
\* restartCount) and the attempt number reported for an attempt never exceed
\* MAX_RESTART_ATTEMPTS
C22_AttemptsWithinCap ==
    /\ \A i \in 1..Len(tasks) : tasks[i].restart_count <= MAX_RESTART_ATTEMPTS
    /\ \A k \in 1..Len(last.attempts) : last.attempts[k].number <= MAX_RESTART_ATTEMPTS

\* the attempts of the latest step that were begun for the task with this id
Begun(id) ==
    IF last'.op = "check_and_restart"
    THEN Cardinality({k \in 1..Len(last'.attempts) : last'.attempts[k].id = id})
    ELSE 0

\* C23: in every step the restartCount of a task grows by the number of
\* automatic restart attempts begun for it in that step (never decreasing,
\* and unchanged by manual starts and stops), and whenever start_task is
\* invoked for an attempt the incremented restartCount is already in the
\* registry file
C23_RestartCountCountsAttempts ==
    [][/\ \A i \in 1..Len(tasks), j \in 1..Len(tasks') :
             tasks'[j].id = tasks[i].id
               => tasks'[j].restart_count = tasks[i].restart_count + Begun(tasks[i].id)
       /\ last'.op = "check_and_restart"
            => \A k \in 1..Len(last'.attempts) :
                  last'.attempts[k].res # "Aborted"
                    => last'.attempts[k].persisted = last'.attempts[k].number]_vars

\* a task that was restarted automatically is started by hand and keeps its count
C23_Witness ==
    /\ last.op = "start" /\ last.res = "Ok"
    /\ \E i \in 1..Len(tasks) :
          /\ tasks[i].id = last.arg
          /\ tasks[i].status = "Running"
          /\ tasks[i].restart_count = MaxRestarts

\* position of the attempt made for this id in the latest pass, 0 if none
AttemptOf(id) ==
    LET S == {k \in 1..Len(last'.attempts) : last'.attempts[k].id = id}
    IN  IF S = {} THEN 0 ELSE MinOf(S)

\* start_task was invoked for the k-th attempt of the latest pass and failed
StartFailed(k) == last'.attempts[k].res \notin {"Ok", "Aborted"}

\* C24: in one pass a selected task is attempted at most once; a task whose
\* start failed is Failed after the pass and selected again by the next pass
\* when its restartCount is within the cap, and after a failed start the
\* start of every task selected after it is still invoked in the same pass
C24_FailedAttemptDoesNotStopPass ==
    [][last'.op = "check_and_restart"
         => LET ids == tasks_to_restart(tasks)
            IN  /\ \A k1, k2 \in 1..Len(last'.attempts) :
                      last'.attempts[k1].id = last'.attempts[k2].id => k1 = k2
                /\ \A k \in 1..Len(last'.attempts) :
                      StartFailed(k)
                        => LET i == IndexOfId(tasks, last'.attempts[k].id)
                           IN  /\ tasks'[i].status = "Failed"
                               /\ tasks'[i].restart_count <= MAX_RESTART_ATTEMPTS
                                    => Selected(tasks'[i])
                               /\ \A n \in (k + 1)..Len(ids) :
                                     /\ AttemptOf(ids[n]) # 0
                                     /\ last'.attempts[AttemptOf(ids[n])].res # "Aborted"]_vars

\* C28: a save that fails during check_and_restart_tasks does not cut the
\* pass short: start_task is still invoked for every task selected at the
\* beginning of the pass, the one whose restartCount was just incremented
\* included
C28_PassSurvivesFailedSave ==
    [][last'.op = "check_and_restart"
         => LET ids == tasks_to_restart(tasks)
            IN  \A n \in 1..Len(ids) :
                   /\ AttemptOf(ids[n]) # 0
                   /\ last'.attempts[AttemptOf(ids[n])].res # "Aborted"]_vars

\* the operations of the registry
Operations ==
    {"create", "start", "stop", "remove", "refresh", "cleanup", "check_and_restart"}

\* C25 as stated: after every operation that returns successfully the
\* registry file equals the in-memory task collection
C25_FileEqualsMemoryAsStated ==
    [][last'.op \in Operations /\ last'.res = "Ok" => file' = tasks']_vars

\* C25: after every operation that returns successfully the registry file is
\* a full rewrite equal to the in-memory task collection, or the operation
\* changed no task and wrote nothing; a new supervisor obtains the tasks of
\* the file, with their fields, in the file's order
C25_FileEqualsMemory ==
    [][/\ last'.op \in Operations /\ last'.res = "Ok"
            => \/ file' = tasks'
               \/ tasks' = tasks /\ file' = file
       /\ last'.op = "new" => tasks' = file /\ file' = file]_vars

\* a restart pass that made an attempt returned successfully and the file
\* holds the incremented restartCount
C25_Witness ==
    /\ last.op = "check_and_restart" /\ last.res = "Ok"
    /\ Len(last.attempts) > 0
    /\ Len(tasks) > 0
    /\ file = tasks

\* C26: TaskManager::new never fails because of the registry file: a file
\* that is missing, cannot be read or is malformed gives a usable manager
\* with an empty registry
C26_LoadNeverFails ==
    [][last'.op = "new"
         => /\ last'.res = "Ok"
            /\ last'.arg # <<"valid">> => tasks' = << >>]_vars

\* C27: when create, start, stop or remove returns an error the registry, in
\* memory and in the file, is as it was before the call, except that a
\* failed start may leave the task it resolved marked Failed
C27_ErrorLeavesRegistry ==
    [][last'.op \in {"create", "start", "stop", "remove"} /\ last'.res # "Ok"
         => \/ tasks' = tasks /\ file' = file
            \/ /\ last'.op = "start"
               /\ Target # 0
               /\ tasks' = [tasks EXCEPT ![Target] = set_status(@, "Failed")]
               /\ file' \in {file, tasks'}]_vars

\* the registry file holds a record with this id
InFile(F, id) == \E j \in 1..Len(F) : F[j].id = id

\* C29: nothing protects the file against a second instance: whenever this
\* instance writes the file, every record another instance saved there that
\* this instance does not hold in memory is gone from the file
C29_SaveDropsForeignRecords ==
    [][last'.op \in Operations /\ file' # file
         => \A j \in 1..Len(file) :
               (\A i \in 1..Len(tasks') : tasks'[i].id # file[j].id)
                 => ~InFile(file', file[j].id)]_vars

\* the lost update: a task the other instance created and saved is absent
\* from the file after a later successful save of this instance
C29_Witness ==
    /\ last.op \in Operations /\ last.res = "Ok"
    /\ \E id \in issued : ~InFile(file, id)

\* the values the lines of a file give to a name
FileValues(f, k) ==
    { split_once(f.lines[i]).value :
        i \in {j \in 1..Len(f.lines) : split_once(f.lines[j]).some /\ split_once(f.lines[j]).key = k} }

\* C30: the process launched last received, for every name given explicitly,
\* the explicit value, and for every name that only the .env file read at
\* the launch defines, a value of that file
C30_EnvPrecedence ==
    env.launched
      => /\ \A k \in DOMAIN env.explicit :
               k \in DOMAIN env.passed /\ env.passed[k] = env.explicit[k]
         /\ \A i \in 1..Len(env.read.lines) :
               LET kv == split_once(env.read.lines[i])
               IN  kv.some /\ kv.key \notin DOMAIN env.explicit
                     => /\ kv.key \in DOMAIN env.passed
                        /\ env.passed[kv.key] \in FileValues(env.read, kv.key)

Streams == {stdout_log_path, stderr_log_path}

backup_path(p) == with_extension(p, <<"log", "old">>)

OverSize(f) == f.exists /\ metadata_len(f.lines) > MAX_LOG_SIZE

\* the step is a start_task call that resolved to the task with this id
StartOf(id) == last'.op = "start" /\ Target # 0 /\ tasks[Target].id = id

\* C31 as stated: a start_task call that gets past the already-running check
\* rotates each stream's log exactly when it is larger than MAX_LOG_SIZE, and a
\* rotation leaves the old content in the .old sibling and a fresh empty
\* active log
C31_RotationAsStated ==
    [][\A id \in IDS, p \in Streams :
          LET f == logs.dir[id][p]
              b == logs.dir[id][backup_path(p)]
          IN  StartOf(id) /\ last'.res # "TaskAlreadyRunning" =>
                 /\ OverSize(f) => /\ logs'.dir[id][backup_path(p)] = f
                                   /\ logs'.dir[id][p] = EmptyFile
                 /\ ~OverSize(f) => /\ logs'.dir[id][backup_path(p)] = b
                                    /\ logs'.dir[id][p].lines = f.lines]_vars

\* C31 (amended): a start_task call that gets past the already-running check
\* rotates each stream's log exactly when it is larger than MAX_LOG_SIZE; the
\* rotation moves the log to the .old sibling, replacing the previous one, and
\* the active log is fresh and empty when the binary passed validation and
\* absent otherwise; a write only appends to the active log, and no other
\* operation changes a log or a backup
C31_Rotation ==
    [][\A id \in IDS, p \in Streams :
          LET f == logs.dir[id][p]
              b == logs.dir[id][backup_path(p)]
              opened == last'.res \in {"Ok", "ProcessStart"}
          IN  IF StartOf(id) /\ last'.res # "TaskAlreadyRunning"
              THEN /\ OverSize(f) => /\ logs'.dir[id][backup_path(p)] = f
                                     /\ logs'.dir[id][p] = IF opened THEN EmptyFile ELSE NoFile
                   /\ ~OverSize(f) => /\ logs'.dir[id][backup_path(p)] = b
                                      /\ logs'.dir[id][p] = IF opened /\ ~f.exists THEN EmptyFile ELSE f
              ELSE /\ logs'.dir[id][backup_path(p)] = b
                   /\ IF last'.op = "write" /\ last'.arg = id
                      THEN /\ logs'.dir[id][p].exists = f.exists
                           /\ StartsWith(logs'.dir[id][p].lines, f.lines)
                      ELSE logs'.dir[id][p] = f]_vars

\* a start has just rotated both logs of a task: the backups hold more than
\* MAX_LOG_SIZE bytes and the active logs are empty
C31_Witness ==
    /\ last.op = "start"
    /\ last.res = "Ok"
    /\ \E id \in IDS : \A p \in Streams :
          /\ OverSize(logs.dir[id][backup_path(p)])
          /\ logs.dir[id][p] = EmptyFile

\* C32: read_log_lines returns, in file order, the last N lines of a file that
\* has more than N lines and all its lines otherwise; for a file that does not
\* exist it returns one sentinel line and no error
C32_ReadLogLines ==
    LET t == logs.tail
        k == Len(t.out)
    IN  t.called =>
           IF ~t.f.exists
           THEN t.res = "Ok" /\ k = 1
           ELSE t.res = "Ok" =>
                   /\ k = IF Len(t.f.lines) > t.n THEN t.n ELSE Len(t.f.lines)
                   /\ \A j \in 1..k : t.out[j] = t.f.lines[Len(t.f.lines) - k + j]

\* a file of three lines was asked for its last two
C32_Witness ==
    /\ logs.tail.called
    /\ logs.tail.res = "Ok"
    /\ logs.tail.f.exists
    /\ Len(logs.tail.f.lines) = 3
    /\ logs.tail.n = 2
    /\ logs.tail.out = <<"a", "b">>

\* what a follow has printed from each stream it opened: the lines between
\* the end of the file at invocation and the reader, in file order, and
\* nothing from a stream it did not open
PrintedFrom(p) ==
    LET F == logs.follow
        mine == IF F.mode = "both"
                THEN { k \in 1..Len(F.printed) :
                          F.printed[k][1] = IF p = stdout_log_path THEN "[OUT] " ELSE "[ERR] " }
                ELSE IF F.open[p] THEN 1..Len(F.printed) ELSE {}
        f == logs.dir[F.id][p]
    IN  /\ Cardinality(mine) = IF F.open[p] THEN F.pos[p] - F.present[p] ELSE 0
        /\ \A k \in mine :
              LET n == Cardinality({ j \in mine : j <= k })
              IN  F.printed[k][2] = f.lines[F.present[p] + n]

FollowPrinted == logs.follow.st # "idle" => \A p \in Streams : PrintedFrom(p)

\* C33 as stated: a follow prints the lines appended after its invocation,
\* in order, and nothing that was present, never returns, and every line
\* appended to a stream it follows is eventually printed
C33_FollowAsStated ==
    /\ [](FollowPrinted /\ logs.follow.st # "returned")
    /\ \A p \in Streams, k \in 1..MaxLogLines :
          (logs.follow.st = "following" /\ logs.follow.open[p]
             /\ Len(logs.dir[logs.follow.id][p].lines) >= k)
          ~> (logs.follow.pos[p] >= k)

\* C33 (amended): a follow prints the lines appended after its invocation, in
\* order, and nothing that was present; it returns on its own only in
\* follow_single_log, when the file did not exist at invocation or a read
\* failed; until then every line appended to a stream it opened is eventually
\* printed
C33_Follow ==
    /\ [](/\ FollowPrinted
          /\ logs.follow.st = "returned" =>
                /\ logs.follow.mode = "single"
                /\ \/ logs.follow.failed
                   \/ \A p \in Streams : ~logs.follow.existed[p] /\ ~logs.follow.open[p])
    /\ \A p \in Streams, k \in 1..MaxLogLines :
          (logs.follow.st = "following" /\ logs.follow.open[p]
             /\ Len(logs.dir[logs.follow.id][p].lines) >= k)
          ~> (logs.follow.pos[p] >= k \/ logs.follow.st = "returned")

\* a follow on both streams found a line in stdout, was not given it, and has
\* printed the two lines appended since, one from each stream
C33_Witness ==
    /\ logs.follow.st = "following"
    /\ logs.follow.mode = "both"
    /\ logs.follow.present[stdout_log_path] = 1
    /\ logs.follow.printed = << <<"[OUT] ", "b">>, <<"[ERR] ", "a">> >>

\* the task with this id has auto_restart, is Running on a process this
\* instance started, the process has terminated, and the restart counter is
\* within the cap
DiedRunning(id) ==
    LET i == IndexOfId(tasks, id)
    IN  /\ i # 0
        /\ tasks[i].auto_restart
        /\ tasks[i].status = "Running"
        /\ tasks[i].pid # NoPid
        /\ running_processes[id] = tasks[i].pid
        /\ procs[tasks[i].pid].st # "child"
        /\ tasks[i].restart_count <= MAX_RESTART_ATTEMPTS

RunningAlive(id) ==
    LET i == IndexOfId(tasks, id)
    IN  /\ i # 0
        /\ tasks[i].status = "Running"
        /\ tasks[i].pid # NoPid
        /\ procs[tasks[i].pid].st = "child"

\* C34: every tick that finds a task with auto_restart whose process died
\* with the restart counter within the cap marks it Failed and makes a restart
\* attempt for it, and when the start of that attempt succeeds the task is
\* Running on a live process after the tick; with the ticks weakly fair this
\* is the eventual restart of the claim
C34_DeadTaskIsRestarted ==
    [][last'.op = "tick" =>
          \A id \in IDS :
             DiedRunning(id) =>
                \E k \in 1..Len(last'.attempts) :
                   /\ last'.attempts[k].id = id
                   /\ last'.attempts[k].res = "Ok" => RunningAlive(id)']_vars

\* the ids of the tasks the latest pass made an attempt for
AttemptedIds == { last'.attempts[k].id : k \in 1..Len(last'.attempts) }

\* C35: in a pass of check_and_restart_tasks the task whose restartCount is
\* incremented for an attempt is the task that is started and, on failure, set
\* to Failed: every process spawned by the pass is spawned for a task whose
\* attempt succeeded, and no task without an attempt has its status, pid or
\* restartCount changed
C35_AttemptActsOnItsTask ==
    [][last'.op = "check_and_restart"
         => /\ Len(tasks') = Len(tasks)
            /\ \A k \in 1..Len(last'.spawned) :
                  \E j \in 1..Len(last'.attempts) :
                     /\ last'.attempts[j].id = last'.spawned[k][1]
                     /\ last'.attempts[j].res = "Ok"
            /\ \A i \in 1..Len(tasks) :
                  IF tasks[i].id \in AttemptedIds
                  THEN tasks'[i].restart_count = tasks[i].restart_count + 1
                  ELSE /\ tasks'[i].status = tasks[i].status
                       /\ tasks'[i].pid = tasks[i].pid
                       /\ tasks'[i].restart_count = tasks[i].restart_count]_vars

\* the process the supervisor spawned last for the task with this id, whose
\* handle it still holds, is alive
LiveFor(id) ==
    /\ running_processes[id] # NoPid
    /\ procs[running_processes[id]].st = "child"

\* C36: no operation spawns a process for a task while a process spawned
\* earlier for that task is still alive
C36_OneLiveProcessPerTask ==
    [][\A k \in 1..Len(last'.spawned) : ~LiveFor(last'.spawned[k][1])]_vars

\* C37, for the pass that directly follows the stop: when stop_task has
\* returned success for a task, whatever its status was, the next pass of
\* check_and_restart_tasks does not start that task
C37_StoppedStaysStopped ==
    [][(last.op = "stop" /\ last.res = "Ok" /\ last'.op = "check_and_restart")
          => LET i == find_task(tasks, last.arg)
             IN  i # 0 => \A k \in 1..Len(last'.spawned) : last'.spawned[k][1] # tasks[i].id]_vars

\* the identifier is empty, or is neither the name, nor the id, nor a
\* non-empty leading part of the id of a registered task
Unmatched(x) ==
    \/ x = << >>
    \/ \A i \in 1..Len(tasks) :
          tasks[i].name # x /\ tasks[i].id # x /\ ~StartsWith(tasks[i].id, x)

\* C38: start_task, stop_task and remove_task called with an identifier that
\* is empty or matches no registered task return TaskNotFound and change
\* nothing
C38_UnmatchedIsNotFound ==
    [][(last'.op \in {"start", "stop", "remove"} /\ Unmatched(last'.arg))
          => /\ last'.res = "TaskNotFound"
             /\ UNCHANGED <<tasks, file, procs, running_processes>>]_vars

\* C39: the env stored on the task holds exactly the variables given
\* explicitly at creation, and every other variable the launched process
\* received has a value of the .env file as read at the launch
C39_StoredEnvIsExplicit ==
    /\ env.created => env.task = env.explicit
    /\ env.launched =>
          \A k \in DOMAIN env.passed \ DOMAIN env.explicit :
             env.passed[k] \in FileValues(env.read, k)

====
